---------------------------- MODULE Spec2Model ----------------------------
(***************************************************************************)
(* A model of micro's event scheduler (the main loop of main()), of the    *)
(* viewport coordinate engine of View (Bottomline, Relocate,               *)
(* GetSoftWrapLocation), and of the multi-cursor command executor          *)
(* (View.HandleEvent, View.ExecuteActions, View.SetCursor).                *)
(***************************************************************************)
EXTENDS Integers, Sequences, FiniteSets, TLC

\* The nil tcell.Event.
Nil == [id |-> 0, kind |-> "nil", buttons |-> "None", tab |-> FALSE, cmd |-> "none"]

\* The closeterm channel with no terminal sending on it.
NoSignal == [sent |-> FALSE, tab |-> 0, vnum |-> 0]

(***************************************************************************)
(* Bounds of the model.                                                    *)
(***************************************************************************)
\* Number of input events the input-polling task produces in one behaviour.
MaxEvents == 3
\* Number of job completions posted in one behaviour.
MaxJobs == 2
\* Number of signals the timer task and the embedded terminals send in one behaviour.
MaxTicks == 1
\* Number of tabs.
MaxTabs == 2
\* Lines of a buffer, and characters of a line.
MaxLines == 3
MaxLen == 3
\* Rows and columns of a pane.
MaxHeight == 3
MaxWidth == 3
\* Largest scroll margin.
MaxMargin == 2
\* Largest tab size.
MaxTab == 2
\* Most cursors a buffer starts with, and the rightmost cursor column.
MaxCursors == 2
MaxCol == 2
\* Most actions in the list of one binding.
MaxActions == 2
\* Most items recorded in curMacro.
MaxMacro == 2
\* Most clicks in a row.
MaxClicks == 3
\* Number of times the statusline option is set.
MaxSets == 3
\* Number of views open in the tabs.
MaxOpenViews == 2
\* Number of loaded plugins.
MaxPlugins == 3
\* Largest value of the option of the settings.
MaxValue == 1

(***************************************************************************)
(* Program constants.                                                      *)
(***************************************************************************)
\* const doubleClickThreshold: "how many milliseconds to wait before a second
\* click is not a double click"
doubleClickThresholdMut == 400 + 200
doubleClickThreshold == 400
\* events = make(chan tcell.Event, 100)
EventsCap == 100
\* jobs = make(chan JobFunction, 100)
JobsCap == 100
\* "tabsize": float64(4)
DefaultTabsize == 4
\* "scrollspeed": float64(2)
DefaultScrollspeed == 2

VARIABLES
    \* ---- the event scheduler (main) ----
    pc,          \* position of the main loop: "redraw", "select", "dispatch", "poll"
    events,      \* the buffered events channel (a FIFO of events)
    jobs,        \* the buffered jobs channel (a FIFO of JobFunctions)
    autosave,    \* TRUE while the timer task is blocked sending on autosave
    updateterm,  \* TRUE while a terminal is blocked sending on updateterm
    closeterm,   \* the view number a terminal is blocked sending on closeterm, and its tab
    event,       \* the local variable event of the loop (Nil or an event)
    searching,   \* the global searching
    numRedraw,   \* the global numRedraw
    produced,    \* history: number of events put on the channel so far
    posted,      \* history: number of jobs posted so far
    handled,     \* history: the events dispatched so far, in order, with the handler
    batch,       \* history: events dispatched since the last RedrawAll
    ticks,       \* history: number of autosave, updateterm and closeterm signals sent
    broke,       \* history: the drain loop was left by the break of TabbarHandleMouseEvent
    curTab,      \* the global curTab
    resized,     \* for every tab, the Resize event its last Resize() was run for (0: none)
    called,      \* history: the job callbacks called so far, with their arguments
    autosaveOption, \* globalSettings["autosave"]
    hasPath,     \* CurView().Buf.Path != ""
    saved,       \* history: the Save calls of autosave ticks, with the option and the path then
    closedTerm,  \* history: the CloseTerminal calls: the view that sent, the view closed
    settingsAccess, \* accesses to globalSettings since the last channel operation between the two goroutines
    race,        \* history: goroutines have accessed globalSettings in a data race
    out,         \* what the deferred function of main has done, in order
    exitStatus,  \* the status the process has exited with (0 while it runs)
    \* ---- one View and the Buffer it shows (the viewport coordinate engine) ----
    lines,       \* Buf.lines: the text, a sequence of lines, each a sequence of characters
    softwrap,    \* Buf.Settings["softwrap"]
    scrollmargin,\* Buf.Settings["scrollmargin"]
    tabsize,     \* Buf.Settings["tabsize"]
    Width,       \* View.Width
    Height,      \* View.Height
    lineNumOffset, \* View.lineNumOffset
    Topline,     \* View.Topline
    leftCol,     \* View.leftCol
    cursorLoc,   \* View.Cursor.Loc: [X, Y] of the active cursor
    lastOp,      \* history: the last operation applied to the view
    \* ---- the view v and its buffer's cursors (the command executor) ----
    cursors,     \* v.Buf.cursors: a sequence of cursors [id, Num, Loc]
    vCursor,     \* v.Cursor: the id of the cursor it points to
    curCursor,   \* v.Buf.curCursor
    vType,       \* v.Type
    curView,     \* CurView(): "v" or "other", another view of the tab
    otherType,   \* the Type of that other view
    recordingMacro, \* the global recordingMacro
    curMacro,    \* the global curMacro
    trace,       \* history: the calls made by the HandleEvent just run, in order
    lastEvent,   \* history: the event of the HandleEvent just run
    before,      \* history: v.Buf.cursors when that HandleEvent began
    \* ---- the click state of the view ----
    now,         \* the clock, in milliseconds
    lastClickTime, \* View.lastClickTime
    lastLoc,     \* View.lastLoc
    doubleClick, \* View.doubleClick
    tripleClick, \* View.tripleClick
    mouseReleased, \* View.mouseReleased
    clickLog,    \* history: the clicks so far: gap to the click before, location, class
    \* ---- the panes ----
    closedViews, \* the views that have been closed: v.Quit has removed the pane
    \* ---- the selection ----
    curSelectionEnd, \* Cursor.CurSelection[1], the end of the selection
    \* ---- the rows of a pane ----
    rawHeight, \* the raw number of rows NewViewWidthHeight was given
    viewY, \* View.y: 1 while the row of the tab bar is reserved
    numTabs, \* len(tabs)
    statusline, \* Buf.Settings["statusline"]
    globalStatusline, \* globalSettings["statusline"]
    numSets, \* the number of times the statusline option has been set
    \* ---- the settings file ----
    invalidSettings, \* var invalidSettings bool
    settingsFile, \* what configDir/settings.json holds
    fileValue, \* the value of the option in a file that parses, else 0
    optionValue, \* globalSettings[option]
    settingsOp, \* the last operation on the settings
    wrote, \* TRUE if the last operation has called ioutil.WriteFile on the file
    readFailed, \* history: reading or parsing the file has failed
    \* ---- the options ----
    globalSettings, \* var globalSettings map[string]interface{}, for the numeric options
    Settings, \* Buffer.Settings of the buffer of the current view
    optCall, \* history: the last call on the options: function, option, value
    optErr, \* history: the error the last call returned or reported, "nil" for none
    optWrote, \* history: TRUE if the last call has called WriteSettings
    \* ---- the hooks of the plugins ----
    hookKind, \* the hook whose loop over loadedPlugins runs: "onViewOpen", "onRune", or "none"
    remaining, \* the plugins the loop has not come to yet
    hookErr, \* the error Call returned for each plugin called, <<>> for nil
    termMessages, \* the plugins whose error TermMessage has shown
    completed, \* the hooks whose triggering action has completed
    \* ---- the save-prompt gate of a view ----
    closeType, \* v.Type of the view that is to be closed or reloaded
    bufModified, \* v.Buf.Modified()
    bufAutosave, \* v.Buf.Settings["autosave"]
    closeOp, \* the last call of CanClose or ReOpen: what it was answered and what it did
    \* ---- the hashing goroutines of the fastdirty option ----
    viewBuf, \* v.Buf of every view of the tabs
    origHash, \* Buffer.origHash of every buffer: "empty", "sum", or "torn"
    hashPc, \* where SetLocalOption("fastdirty", ...) is: 0 not called, i at view i of its loop, then at wg.Wait(), then returned
    hashers, \* the goroutine started for every view: "none", "open", "copy", "sum", "done"
    wg \* the counter of the sync.WaitGroup

loopVars == <<pc, events, jobs, autosave, updateterm, closeterm, event,
              searching, numRedraw, produced, posted, handled, batch, ticks,
              broke, curTab, resized, called, autosaveOption, hasPath, saved,
              closedTerm, settingsAccess, race, out, exitStatus>>

viewVars == <<lines, softwrap, scrollmargin, tabsize, Width, Height, lineNumOffset,
              Topline, leftCol, cursorLoc, lastOp>>

dispVars == <<cursors, vCursor, curCursor, vType, curView, otherType,
              recordingMacro, curMacro, trace, lastEvent, before>>

clickVars == <<now, lastClickTime, lastLoc, doubleClick, tripleClick,
               mouseReleased, clickLog>>

paneVars == <<closedViews>>

selVars == <<curSelectionEnd>>

rowVars == <<rawHeight, viewY, numTabs, statusline, globalStatusline, numSets>>

setVars == <<invalidSettings, settingsFile, fileValue, optionValue, settingsOp, wrote,
             readFailed>>

optVars == <<globalSettings, Settings, optCall, optErr, optWrote>>

hookVars == <<hookKind, remaining, hookErr, termMessages, completed>>

closeVars == <<closeType, bufModified, bufAutosave, closeOp>>

hashVars == <<viewBuf, origHash, hashPc, hashers, wg>>

vars == <<loopVars, viewVars, dispVars, clickVars, paneVars, selVars, rowVars, setVars, optVars, hookVars, closeVars, hashVars>>

\* What the actions of one part leave alone.
notLoopVars == <<viewVars, dispVars, clickVars, paneVars, selVars, rowVars, setVars, optVars, hookVars, closeVars, hashVars>>
notViewVars == <<loopVars, dispVars, clickVars, paneVars, selVars, rowVars, setVars, optVars, hookVars, closeVars, hashVars>>
notDispVars == <<loopVars, viewVars, clickVars, paneVars, selVars, rowVars, setVars, optVars, hookVars, closeVars, hashVars>>
notClickVars == <<loopVars, viewVars, dispVars, paneVars, selVars, rowVars, setVars, optVars, hookVars, closeVars, hashVars>>
notPaneVars == <<loopVars, viewVars, dispVars, clickVars, selVars, rowVars, setVars, optVars, hookVars, closeVars, hashVars>>
notSelVars == <<loopVars, viewVars, dispVars, clickVars, paneVars, rowVars, setVars, optVars, hookVars, closeVars, hashVars>>
notRowVars == <<loopVars, viewVars, dispVars, clickVars, paneVars, selVars, setVars, optVars, hookVars, closeVars, hashVars>>
notSetVars == <<loopVars, viewVars, dispVars, clickVars, paneVars, selVars, rowVars, optVars, hookVars, closeVars, hashVars>>
notOptVars == <<loopVars, viewVars, dispVars, clickVars, paneVars, selVars, rowVars, setVars, hookVars, closeVars, hashVars>>
notHookVars == <<loopVars, viewVars, dispVars, clickVars, paneVars, selVars, rowVars, setVars, optVars, closeVars, hashVars>>
notCloseVars == <<loopVars, viewVars, dispVars, clickVars, paneVars, selVars, rowVars, setVars, optVars, hookVars, hashVars>>
notHashVars == <<loopVars, viewVars, dispVars, clickVars, paneVars, selVars, rowVars, setVars, optVars, hookVars, closeVars>>

(***************************************************************************)
(* The event scheduler: main(), the loop at the end of it and the two      *)
(* producer goroutines started before it.                                  *)
(***************************************************************************)

\* The tabs, each with one view, the view number 0.
Tabs == 1 .. MaxTabs

\* The events screen.PollEvent() can return, as far as the loop tells them
\* apart.  tab is what TabbarHandleMouseEvent will answer for the event: it
\* "checks the mouse event for the possibility of changing the current tab",
\* so only a mouse event can get TRUE.  cmd is the option command the event
\* makes the view run, if any.
EventShapes ==
    { [kind |-> "Key",    buttons |-> "None",    tab |-> FALSE, cmd |-> "none"],
      [kind |-> "Resize", buttons |-> "None",    tab |-> FALSE, cmd |-> "none"],
      [kind |-> "Mouse",  buttons |-> "Button1", tab |-> FALSE, cmd |-> "none"],
      [kind |-> "Mouse",  buttons |-> "Button1", tab |-> TRUE,  cmd |-> "none"],
      [kind |-> "Mouse",  buttons |-> "WheelUp", tab |-> FALSE, cmd |-> "none"] }

\* The key that ends the command "set autosave on" or "set autosave off".
CommandShapes ==
    { [kind |-> "Key", buttons |-> "None", tab |-> FALSE, cmd |-> c] :
        c \in {"on", "off"} }

\* A click on another tab of the tab bar.
TabClick == [kind |-> "Mouse", buttons |-> "Button1", tab |-> TRUE, cmd |-> "none"]

MkEvent(id, shape) ==
    [id |-> id, kind |-> shape.kind, buttons |-> shape.buttons, tab |-> shape.tab,
     cmd |-> shape.cmd]

\* If the tab was changed it returns true.
TabbarHandleMouseEvent(e) == e.tab

\* The JobFunction the n-th worker posts: its callback, its output buffer
\* and its args.
JobOf(n) == [function |-> n, output |-> <<"output", n>>, args |-> <<"args", n>>]

\* What the deferred function of main does with a recovered panic, in order.
RecoverStepsMut == <<"fmt.Println", "ErrorStack", "screen.Fini">>
RecoverSteps == <<"screen.Fini", "fmt.Println", "ErrorStack">>

\* The loop as main enters it: settings.json has autosave on and the buffer
\* of the current view was opened from a file.
InitLoop ==
    /\ pc = "redraw"
    /\ events = <<>>
    /\ jobs = <<>>
    /\ autosave = FALSE
    /\ updateterm = FALSE
    /\ closeterm = NoSignal
    /\ event = Nil
    /\ searching = FALSE
    /\ numRedraw = 0
    /\ produced = 0
    /\ posted = 0
    /\ handled = <<>>
    /\ batch = 0
    /\ ticks = 0
    /\ broke = FALSE
    /\ curTab = 1
    /\ resized = [t \in Tabs |-> 0]
    /\ called = <<>>
    /\ autosaveOption = TRUE
    /\ hasPath = TRUE
    /\ saved = <<>>
    /\ closedTerm = <<>>
    /\ settingsAccess = {}
    /\ race = FALSE
    /\ out = <<>>
    /\ exitStatus = 0

\* The process has not exited: its goroutines run.
Running == pc # "exit"

\* go func() { for { if screen != nil { events <- screen.PollEvent() } } }()
PollEvent ==
    /\ Running
    /\ produced < MaxEvents
    /\ Len(events) < EventsCap
    /\ \E s \in EventShapes :
          events' = Append(events, MkEvent(produced + 1, s))
    /\ produced' = produced + 1
    /\ UNCHANGED <<pc, jobs, autosave, updateterm, closeterm, event,
                   searching, numRedraw, posted, handled, batch, ticks,
                   broke, curTab, resized, called, autosaveOption, hasPath,
                   saved, closedTerm, settingsAccess, race, out, exitStatus>>
    /\ UNCHANGED notLoopVars

\* The same task, the user ending an option command.
PollCommand ==
    /\ Running
    /\ produced < MaxEvents
    /\ Len(events) < EventsCap
    /\ \E s \in CommandShapes :
          events' = Append(events, MkEvent(produced + 1, s))
    /\ produced' = produced + 1
    /\ UNCHANGED <<pc, jobs, autosave, updateterm, closeterm, event,
                   searching, numRedraw, posted, handled, batch, ticks,
                   broke, curTab, resized, called, autosaveOption, hasPath,
                   saved, closedTerm, settingsAccess, race, out, exitStatus>>
    /\ UNCHANGED notLoopVars

\* The same task after a burst that has filled the channel, up to MaxEvents
\* events beyond its capacity, keys and clicks on the tab bar: the send
\* blocks while the channel is full.
PollBurst ==
    /\ Running
    /\ produced < EventsCap + MaxEvents
    /\ Len(events) < EventsCap
    /\ \E s \in { e \in EventShapes : e.kind = "Key" \/ TabbarHandleMouseEvent(e) } :
          events' = Append(events, MkEvent(produced + 1, s))
    /\ produced' = produced + 1
    /\ UNCHANGED <<pc, jobs, autosave, updateterm, closeterm, event,
                   searching, numRedraw, posted, handled, batch, ticks,
                   broke, curTab, resized, called, autosaveOption, hasPath,
                   saved, closedTerm, settingsAccess, race, out, exitStatus>>
    /\ UNCHANGED notLoopVars

\* A worker task posts its completion on the jobs channel.
JobDone ==
    /\ Running
    /\ posted < MaxJobs
    /\ Len(jobs) < JobsCap
    /\ jobs' = Append(jobs, JobOf(posted + 1))
    /\ posted' = posted + 1
    /\ UNCHANGED <<pc, events, autosave, updateterm, closeterm, event,
                   searching, numRedraw, produced, handled, batch, ticks,
                   broke, curTab, resized, called, autosaveOption, hasPath,
                   saved, closedTerm, settingsAccess, race, out, exitStatus>>
    /\ UNCHANGED notLoopVars

\* The accesses to globalSettings with no channel operation between them:
\* a map read of one goroutine and a map write of another are a data race.
Races(acc) == "timer read" \in acc /\ "main write" \in acc

\* go func() { for { time.Sleep(...); if globalSettings["autosave"].(bool)
\* { autosave <- true } } }()
\* The task reads the settings map; if the option is on it sends, and the
\* channel being unbuffered it stays blocked in the send.
AutosaveTimer ==
    /\ Running
    /\ ~autosave
    /\ ticks < MaxTicks
    /\ autosave' = autosaveOption
    /\ ticks' = ticks + 1
    /\ settingsAccess' = settingsAccess \cup {"timer read"}
    /\ race' = (race \/ Races(settingsAccess'))
    /\ UNCHANGED <<pc, events, jobs, updateterm, closeterm, event, searching,
                   numRedraw, produced, posted, handled, batch, broke,
                   curTab, resized, called, autosaveOption, hasPath, saved,
                   closedTerm, out, exitStatus>>
    /\ UNCHANGED notLoopVars

\* An embedded terminal signals an update (unbuffered channel).
TermUpdate ==
    /\ Running
    /\ ~updateterm
    /\ ticks < MaxTicks
    /\ updateterm' = TRUE
    /\ ticks' = ticks + 1
    /\ UNCHANGED <<pc, events, jobs, autosave, closeterm, event, searching,
                   numRedraw, produced, posted, handled, batch, broke,
                   curTab, resized, called, autosaveOption, hasPath, saved,
                   closedTerm, settingsAccess, race, out, exitStatus>>
    /\ UNCHANGED notLoopVars

\* The embedded terminal of a view signals that it has closed (unbuffered
\* channel): it sends the number of its view, closeterm <- view.Num.
TermClose ==
    /\ Running
    /\ closeterm = NoSignal
    /\ ticks < MaxTicks
    /\ \E t \in Tabs : closeterm' = [sent |-> TRUE, tab |-> t, vnum |-> 0]
    /\ ticks' = ticks + 1
    /\ UNCHANGED <<pc, events, jobs, autosave, updateterm, event, searching,
                   numRedraw, produced, posted, handled, batch, broke,
                   curTab, resized, called, autosaveOption, hasPath, saved,
                   closedTerm, settingsAccess, race, out, exitStatus>>
    /\ UNCHANGED notLoopVars

\* RedrawAll() at the top of the loop, then "var event tcell.Event".
RedrawAll ==
    /\ pc = "redraw"
    /\ numRedraw' = numRedraw + 1
    /\ event' = Nil
    /\ batch' = 0
    /\ broke' = FALSE
    /\ pc' = "select"
    /\ UNCHANGED <<events, jobs, autosave, updateterm, closeterm, searching,
                   produced, posted, handled, ticks, curTab, resized, called,
                   autosaveOption, hasPath, saved, closedTerm,
                   settingsAccess, race, out, exitStatus>>
    /\ UNCHANGED notLoopVars

\* A receive from a channel: the value sent first.
ReceiveMut(q) == [value |-> q[Len(q)], rest |-> SubSeq(q, 1, Len(q) - 1)]
Receive(q) == [value |-> Head(q), rest |-> Tail(q)]

\* f.function(f.output, f.args...)
CallbackMut(f) == [function |-> f.function, output |-> f.output, args |-> <<>>]
Callback(f) == [function |-> f.function, output |-> f.output, args |-> f.args]

\* case f := <-jobs: f.function(f.output, f.args...); continue
SelectJob ==
    /\ pc = "select"
    /\ jobs # <<>>
    /\ jobs' = Receive(jobs).rest
    /\ called' = Append(called, Callback(Receive(jobs).value))
    /\ pc' = "redraw"
    /\ UNCHANGED <<events, autosave, updateterm, closeterm, event, searching,
                   numRedraw, produced, posted, handled, batch, ticks, broke,
                   curTab, resized, autosaveOption, hasPath, saved,
                   closedTerm, settingsAccess, race, out, exitStatus>>
    /\ UNCHANGED notLoopVars

\* case <-autosave: if CurView().Buf.Path != "" { CurView().Save(true) };
\* event stays nil, so the drain loop is skipped.  The receive orders the
\* accesses of the two goroutines made so far.
SelectAutosave ==
    /\ pc = "select"
    /\ autosave
    /\ autosave' = FALSE
    /\ saved' = IF hasPath
                THEN Append(saved, [option |-> autosaveOption, path |-> hasPath])
                ELSE saved
    /\ settingsAccess' = {}
    /\ pc' = "redraw"
    /\ UNCHANGED <<events, jobs, updateterm, closeterm, event, searching,
                   numRedraw, produced, posted, handled, batch, ticks, broke,
                   curTab, resized, called, autosaveOption, hasPath,
                   closedTerm, race, out, exitStatus>>
    /\ UNCHANGED notLoopVars

\* case <-updateterm: continue
SelectUpdateterm ==
    /\ pc = "select"
    /\ updateterm
    /\ updateterm' = FALSE
    /\ pc' = "redraw"
    /\ UNCHANGED <<events, jobs, autosave, closeterm, event, searching,
                   numRedraw, produced, posted, handled, batch, ticks, broke,
                   curTab, resized, called, autosaveOption, hasPath, saved,
                   closedTerm, settingsAccess, race, out, exitStatus>>
    /\ UNCHANGED notLoopVars

\* case vnum := <-closeterm: tabs[curTab].Views[vnum].CloseTerminal();
\* event stays nil.
SelectCloseterm ==
    /\ pc = "select"
    /\ closeterm # NoSignal
    /\ closedTerm' = Append(closedTerm,
                            [owner |-> <<closeterm.tab, closeterm.vnum>>,
                             closed |-> <<curTab, closeterm.vnum>>])
    /\ closeterm' = NoSignal
    /\ pc' = "redraw"
    /\ UNCHANGED <<events, jobs, autosave, updateterm, event, searching,
                   numRedraw, produced, posted, handled, batch, ticks, broke,
                   curTab, resized, called, autosaveOption, hasPath, saved,
                   settingsAccess, race, out, exitStatus>>
    /\ UNCHANGED notLoopVars

\* case event = <-events:
SelectEvent ==
    /\ pc = "select"
    /\ events # <<>>
    /\ event' = Receive(events).value
    /\ events' = Receive(events).rest
    /\ pc' = "dispatch"
    /\ UNCHANGED <<jobs, autosave, updateterm, closeterm, searching,
                   numRedraw, produced, posted, handled, batch, ticks, broke,
                   curTab, resized, called, autosaveOption, hasPath, saved,
                   closedTerm, settingsAccess, race, out, exitStatus>>
    /\ UNCHANGED notLoopVars

\* The wheel branch of the switch: the view under the pointer handles the
\* event (didAction).  underView tells whether a view is under the pointer.
WheelOverView(e, underView) ==
    /\ e.kind = "Mouse"
    /\ ~searching
    /\ e.buttons = "WheelUp"
    /\ underView

\* Which handler the body of "for event != nil" gives the event to:
\* "wheel" (view.HandleEvent in the switch), "tabbar" (TabbarHandleMouseEvent
\* consumed it), "search" (HandleSearchEvent) or "view" (CurView().HandleEvent).
Handler(e, underView) ==
    IF WheelOverView(e, underView) THEN "wheel"
    ELSE IF TabbarHandleMouseEvent(e) THEN "tabbar"
    ELSE IF searching THEN "search"
    ELSE "view"

\* case *tcell.EventResize: for _, t := range tabs { t.Resize() }
\* r tells for every tab the Resize event its last Resize() was run for.
ResizeTabsMut(r, e) == IF e.kind = "Resize" THEN [r EXCEPT ![curTab] = e.id] ELSE r
ResizeTabs(r, e) == IF e.kind = "Resize" THEN [t \in Tabs |-> e.id] ELSE r

\* The non-blocking receive that ends the body of "for event != nil":
\* select { case event = <-events: default: event = nil }
DrainNextMut(q) == [event |-> Nil, events |-> q]
DrainNext(q) ==
    IF q # <<>> THEN [event |-> Head(q), events |-> Tail(q)]
    ELSE [event |-> Nil, events |-> q]

\* One pass of the body of "for event != nil" for the event in hand, up to
\* the place where the next event is polled.
Dispatch ==
    /\ pc = "dispatch"
    /\ \E underView \in BOOLEAN, search \in BOOLEAN, t \in Tabs \ {curTab} :
          LET h == Handler(event, underView)
              sets == h = "view" /\ event.cmd # "none"
          IN
          /\ handled' = Append(handled, <<event.id, h>>)
          /\ batch' = batch + 1
          /\ resized' = ResizeTabs(resized, event)
          /\ \/ /\ h = "tabbar"               \* break: leaves the drain loop
                /\ pc' = "redraw"
                /\ broke' = TRUE
                /\ searching' = searching
                /\ curTab' = t
             \/ /\ h # "tabbar"
                /\ pc' = "poll"
                /\ broke' = FALSE
                \* a handler may begin or end a search
                /\ searching' = IF h \in {"view", "search"} THEN search ELSE searching
                /\ curTab' = curTab
          \* the command of the event: SetOption writes globalSettings
          /\ autosaveOption' = IF sets THEN event.cmd = "on" ELSE autosaveOption
          /\ settingsAccess' = IF sets THEN settingsAccess \cup {"main write"}
                               ELSE settingsAccess
          /\ race' = (race \/ Races(settingsAccess'))
    /\ UNCHANGED <<events, jobs, autosave, updateterm, closeterm, event,
                   numRedraw, produced, posted, ticks, called, hasPath,
                   saved, closedTerm, out, exitStatus>>
    /\ UNCHANGED notLoopVars

Poll ==
    /\ pc = "poll"
    /\ LET r == DrainNext(events) IN
          /\ event' = r.event
          /\ events' = r.events
          /\ pc' = IF r.event = Nil THEN "redraw" ELSE "dispatch"
    /\ UNCHANGED <<jobs, autosave, updateterm, closeterm, searching,
                   numRedraw, produced, posted, handled, batch, ticks, broke,
                   curTab, resized, called, autosaveOption, hasPath, saved,
                   closedTerm, settingsAccess, race, out, exitStatus>>
    /\ UNCHANGED notLoopVars

\* RedrawAll, the callback of a job or the handler of an event panics.
Panic ==
    /\ \/ pc \in {"redraw", "dispatch"}
       \/ pc = "select" /\ jobs # <<>>
    /\ jobs' = IF pc = "select" THEN Receive(jobs).rest ELSE jobs
    /\ pc' = "panic"
    /\ UNCHANGED <<events, autosave, updateterm, closeterm, event, searching,
                   numRedraw, produced, posted, handled, batch, ticks, broke,
                   curTab, resized, called, autosaveOption, hasPath, saved,
                   closedTerm, settingsAccess, race, out, exitStatus>>
    /\ UNCHANGED notLoopVars

\* The deferred function of main: recover() returns the error;
\* screen.Fini(), the two prints, os.Exit(1).
Recover ==
    /\ pc = "panic"
    /\ out' = RecoverSteps
    /\ exitStatus' = 1
    /\ pc' = "exit"
    /\ UNCHANGED <<events, jobs, autosave, updateterm, closeterm, event,
                   searching, numRedraw, produced, posted, handled, batch,
                   ticks, broke, curTab, resized, called, autosaveOption,
                   hasPath, saved, closedTerm, settingsAccess, race>>
    /\ UNCHANGED notLoopVars

\* The view a job was started for: the worker hands it to the callback among
\* the args of its JobFunction.
ViewOf(f) == f.args[2]

\* v.Quit(true), called by the handler of the key in hand: the pane of a view
\* is closed and the view destroyed, whatever jobs were started for it.
Quit ==
    /\ pc = "dispatch"
    /\ event.kind = "Key"
    /\ \E v \in 1 .. MaxJobs :
          /\ v \notin closedViews
          /\ closedViews' = closedViews \cup {v}
    /\ UNCHANGED notPaneVars

\* The loop with a full events channel: a burst of clicks on the tab bar
\* while the main loop was busy.
NextBurst ==
    \/ PollBurst
    \/ TermUpdate
    \/ RedrawAll
    \/ SelectUpdateterm
    \/ SelectEvent
    \/ Dispatch
    \/ Poll

\* The loop, the timer task and a user who sets the autosave option.
NextTasks ==
    \/ PollCommand
    \/ AutosaveTimer
    \/ RedrawAll
    \/ SelectAutosave
    \/ SelectEvent
    \/ Dispatch
    \/ Poll

\* The loop, the input task and the job workers; RedrawAll, the callback of
\* a job or the handler of an event may panic.
NextPanic ==
    \/ PollEvent
    \/ JobDone
    \/ RedrawAll
    \/ SelectJob
    \/ SelectEvent
    \/ Dispatch
    \/ Poll
    \/ Panic
    \/ Recover

\* The loop, the input task and the job workers, with keys that close views.
NextJobs ==
    \/ PollEvent
    \/ JobDone
    \/ Quit
    \/ RedrawAll
    \/ SelectJob
    \/ SelectEvent
    \/ Dispatch
    \/ Poll

NextLoop ==
    \/ PollEvent
    \/ JobDone
    \/ AutosaveTimer
    \/ TermUpdate
    \/ TermClose
    \/ RedrawAll
    \/ SelectJob
    \/ SelectAutosave
    \/ SelectUpdateterm
    \/ SelectCloseterm
    \/ SelectEvent
    \/ Dispatch
    \/ Poll



(***************************************************************************)
(* The viewport coordinate engine: View.Bottomline, View.Relocate,         *)
(* View.GetSoftWrapLocation, View.ScrollUp, View.ScrollDown,               *)
(* View.MoveToMouseClick, and the relocation passes of View.HandleEvent.   *)
(* Lines, columns and rows are counted from 0 as in the code; a line's     *)
(* characters are the elements 1..Len of a sequence.                       *)
(***************************************************************************)

TAB == "\t"

\* The view and its buffer as one value, so that the methods of View are
\* operators.  The pane is the one at the top left of the screen: x = y = 0.
ThisView ==
    [lines |-> lines, softwrap |-> softwrap, scrollmargin |-> scrollmargin,
     tabsize |-> tabsize, Width |-> Width, Height |-> Height,
     lineNumOffset |-> lineNumOffset, Topline |-> Topline, leftCol |-> leftCol,
     Cursor |-> cursorLoc, x |-> 0, y |-> 0]

\* Buf.NumLines
NumLines(v) == Len(v.lines)

\* Buf.Line(n): the text of line n, empty for a line the buffer does not have
\* (GetSoftWrapLocation and Bottomline call it before any range check).
Line(v, n) == IF n >= 0 /\ n < NumLines(v) THEN v.lines[n + 1] ELSE <<>>

\* Count(line): the number of characters.
Count(line) == Len(line)

\* v.Width - v.lineNumOffset: the columns left for text.
Usable(v) == v.Width - v.lineNumOffset

\* The wrap test at the head of the character loop of Bottomline and of
\* GetSoftWrapLocation: if screenX >= v.Width-v.lineNumOffset { screenX = 0; screenY++ }
Wrap(sx, sy, usable) ==
    IF sx >= usable THEN [x |-> 0, y |-> sy + 1] ELSE [x |-> sx, y |-> sy]

\* The rest of the loop body: a tab adds tabsize - 1, then screenX++.
Advance(ch, sx, T) == (IF ch = TAB THEN sx + T - 1 ELSE sx) + 1

\* The character loop "for _, ch := range line" over the characters i..Len(line),
\* entered with (screenX, screenY) = (sx, sy): the values it ends with.
RECURSIVE WalkChars(_, _, _, _, _, _)
WalkChars(line, i, sx, sy, usable, T) ==
    IF i > Len(line) THEN [x |-> sx, y |-> sy]
    ELSE LET w == Wrap(sx, sy, usable)
         IN  WalkChars(line, i + 1, Advance(line[i], w.x, T), w.y, usable, T)

\* The line loop of Bottomline from line lineN on, entered with screenY and
\* numLines: the numLines it ends with.
RECURSIVE BottomWalk(_, _, _, _)
BottomWalk(v, lineN, screenY, numLines) ==
    IF ~(lineN < v.Topline + v.Height) THEN numLines
    ELSE LET w == WalkChars(Line(v, lineN), 1, 0, screenY, Usable(v), v.tabsize)
         IN  IF w.y + 1 >= v.Height THEN numLines + 1
             ELSE BottomWalk(v, lineN + 1, w.y + 1, numLines + 1)

\* func (v *View) Bottomline() int
BottomlineMut(v) ==
    IF ~v.softwrap THEN v.Topline + v.Height + 1
    ELSE BottomWalk(v, v.Topline, 0, 0) + v.Topline
Bottomline(v) ==
    IF ~v.softwrap THEN v.Topline + v.Height
    ELSE BottomWalk(v, v.Topline, 0, 0) + v.Topline

\* Cursor.GetVisualX(): the visual column of the cursor, the columns before it
\* with tabs expanded to the tab width.
RECURSIVE VisualWidth(_, _, _)
VisualWidth(line, n, T) ==
    IF n <= 0 THEN 0
    ELSE VisualWidth(line, n - 1, T) + (IF line[n] = TAB THEN T ELSE 1)

GetVisualX(v) == VisualWidth(Line(v, v.Cursor.Y), v.Cursor.X, v.tabsize)

\* Cursor.GetCharPosInLine(lineNum, visualPos): the column of line lineNum shown
\* at visual column visualPos, at most the length of the line.
RECURSIVE CharPosFrom(_, _, _, _)
CharPosFrom(line, col, visualPos, T) ==
    IF col >= Len(line) THEN Len(line)
    ELSE IF VisualWidth(line, col + 1, T) > visualPos THEN col
    ELSE CharPosFrom(line, col + 1, visualPos, T)

GetCharPosInLine(v, lineNum, visualPos) ==
    CharPosFrom(Line(v, lineNum), 0, visualPos, v.tabsize)

\* The character loop of GetSoftWrapLocation over the characters i..Len(line):
\* found with the column when a character stands at (vx, vy), else the
\* (screenX, screenY) the loop ends with.
RECURSIVE FindInLine(_, _, _, _, _, _, _, _)
FindInLineMut(line, i, sx, sy, vx, vy, usable, T) ==
    IF i > Len(line) THEN [found |-> FALSE, col |-> i - 1, x |-> sx, y |-> sy]
    ELSE IF sx = vx /\ sy = vy
         THEN [found |-> TRUE, col |-> i - 1, x |-> sx, y |-> sy]
         ELSE LET w == Wrap(sx, sy, usable)
              IN  FindInLine(line, i + 1, Advance(line[i], w.x, T), w.y, vx, vy, usable, T)
FindInLine(line, i, sx, sy, vx, vy, usable, T) ==
    IF i > Len(line) THEN [found |-> FALSE, col |-> i - 1, x |-> sx, y |-> sy]
    ELSE LET w == Wrap(sx, sy, usable)
         IN  IF w.x = vx /\ w.y = vy
             THEN [found |-> TRUE, col |-> i - 1, x |-> w.x, y |-> w.y]
             ELSE FindInLine(line, i + 1, Advance(line[i], w.x, T), w.y, vx, vy, usable, T)

\* The line loop of GetSoftWrapLocation from line lineN on, entered with screenY.
RECURSIVE WrapScan(_, _, _, _, _)
WrapScan(v, lineN, screenY, vx, vy) ==
    IF ~(lineN < Bottomline(v)) THEN [X |-> 0, Y |-> 0]
    ELSE IF lineN >= NumLines(v) THEN [X |-> 0, Y |-> NumLines(v) - 1]
    ELSE LET f == FindInLine(Line(v, lineN), 1, 0, screenY, vx, vy, Usable(v), v.tabsize)
         IN  IF f.found THEN [X |-> f.col, Y |-> lineN]
             ELSE IF f.y = vy THEN [X |-> f.col, Y |-> lineN]
             ELSE WrapScan(v, lineN + 1, f.y + 1, vx, vy)

\* func (v *View) GetSoftWrapLocation(vx, vy int) (int, int)
GetSoftWrapLocation(v, vx, vy) ==
    IF ~v.softwrap
    THEN LET y == IF vy >= NumLines(v) THEN NumLines(v) - 1 ELSE vy
         IN  [X |-> GetCharPosInLine(v, y, vx), Y |-> y]
    ELSE WrapScan(v, v.Topline, v.Topline, vx, vy)

\* The screenY with which the line loop of GetSoftWrapLocation enters line lineN.
RECURSIVE RowOfLine(_, _)
RowOfLine(v, lineN) ==
    IF lineN <= v.Topline THEN v.Topline
    ELSE WalkChars(Line(v, lineN - 1), 1, 0, RowOfLine(v, lineN - 1),
                   Usable(v), v.tabsize).y + 1

\* The cell (screenX, screenY) the walk of GetSoftWrapLocation has reached
\* where it examines column c of line lineN: after the wrap test for a
\* character, after the character loop for the end of the line.
PlaceOf(v, lineN, c) ==
    LET line == Line(v, lineN)
        w == WalkChars(SubSeq(line, 1, c), 1, 0, RowOfLine(v, lineN), Usable(v), v.tabsize)
    IN  IF c < Len(line) THEN Wrap(w.x, w.y, Usable(v)) ELSE w

\* func (v *View) Relocate() bool: the view after the call, and the result.
RelocateMut(v) ==
    LET height == Bottomline(v) - v.Topline
        cy == v.Cursor.Y
        sm == v.scrollmargin
        up1 == cy < v.Topline + sm /\ cy > sm - 1
        up2 == ~up1 /\ cy < v.Topline
        t1 == IF up1 THEN cy - sm ELSE IF up2 THEN cy ELSE v.Topline
        down1 == cy > t1 + height - 1 - sm /\ cy < NumLines(v) - sm
        down2 == ~down1 /\ cy >= NumLines(v) - sm /\ cy >= height
        t2 == IF down1 THEN cy - height + 1 + sm
              ELSE IF down2 THEN NumLines(v) - height - 1 ELSE t1
        cx == GetVisualX(v)
        left1 == ~v.softwrap /\ cx < v.leftCol
        l1 == IF left1 THEN cx ELSE v.leftCol
        left2 == ~v.softwrap /\ cx + v.lineNumOffset + 1 > l1 + v.Width
        l2 == IF left2 THEN cx - v.Width + v.lineNumOffset + 1 ELSE l1
    IN  [v |-> [v EXCEPT !.Topline = t2, !.leftCol = l2],
         ret |-> up1 \/ up2 \/ down1 \/ down2 \/ left1 \/ left2]
Relocate(v) ==
    LET height == Bottomline(v) - v.Topline
        cy == v.Cursor.Y
        sm == v.scrollmargin
        up1 == cy < v.Topline + sm /\ cy > sm - 1
        up2 == ~up1 /\ cy < v.Topline
        t1 == IF up1 THEN cy - sm ELSE IF up2 THEN cy ELSE v.Topline
        down1 == cy > t1 + height - 1 - sm /\ cy < NumLines(v) - sm
        down2 == ~down1 /\ cy >= NumLines(v) - sm /\ cy >= height
        t2 == IF down1 THEN cy - height + 1 + sm
              ELSE IF down2 THEN NumLines(v) - height ELSE t1
        cx == GetVisualX(v)
        left1 == ~v.softwrap /\ cx < v.leftCol
        l1 == IF left1 THEN cx ELSE v.leftCol
        left2 == ~v.softwrap /\ cx + v.lineNumOffset + 1 > l1 + v.Width
        l2 == IF left2 THEN cx - v.Width + v.lineNumOffset + 1 ELSE l1
    IN  [v |-> [v EXCEPT !.Topline = t2, !.leftCol = l2],
         ret |-> up1 \/ up2 \/ down1 \/ down2 \/ left1 \/ left2]

\* func (v *View) ScrollUp(n int)
ScrollUp(v, n) ==
    IF v.Topline - n >= 0 THEN [v EXCEPT !.Topline = @ - n]
    ELSE IF v.Topline > 0 THEN [v EXCEPT !.Topline = @ - 1]
    ELSE v

\* func (v *View) ScrollDown(n int)
ScrollDown(v, n) ==
    IF v.Topline + n <= NumLines(v) THEN [v EXCEPT !.Topline = @ + n]
    ELSE IF v.Topline < NumLines(v) - 1 THEN [v EXCEPT !.Topline = @ + 1]
    ELSE v

\* func (v *View) MoveToMouseClick(x, y int)
MoveToMouseClickMut(v, x, y) ==
    LET below == y - v.Topline > v.Height - 1
        v1 == IF below THEN ScrollDown(v, 2) ELSE v
        y1 == IF below THEN v1.Height + v1.Topline - 1 ELSE y
        y2 == IF y1 < 0 THEN 0 ELSE y1
        x2 == IF x < 0 THEN 0 ELSE x
        loc == GetSoftWrapLocation(v1, x2, y2)
        x3 == IF loc.X > Count(Line(v1, loc.Y)) THEN Count(Line(v1, loc.Y)) ELSE loc.X
    IN  [v1 EXCEPT !.Cursor = [X |-> x3, Y |-> loc.Y]]
MoveToMouseClick(v, x, y) ==
    LET below == y - v.Topline > v.Height - 1
        v1 == IF below THEN ScrollDown(v, 1) ELSE v
        y1 == IF below THEN v1.Height + v1.Topline - 1 ELSE y
        y2 == IF y1 < 0 THEN 0 ELSE y1
        x2 == IF x < 0 THEN 0 ELSE x
        loc == GetSoftWrapLocation(v1, x2, y2)
        x3 == IF loc.X > Count(Line(v1, loc.Y)) THEN Count(Line(v1, loc.Y)) ELSE loc.X
    IN  [v1 EXCEPT !.Cursor = [X |-> x3, Y |-> loc.Y]]

\* func (v *View) GetMouseClickLocation(x, y int) (int, int): the view after
\* the call and the location returned.
GetMouseClickLocationMut(v, x, y) ==
    LET xa == x - (v.lineNumOffset - v.leftCol + v.x)
        ya == y + v.Topline - v.y
        below == ya - v.Topline > v.Height - 1
        v1 == IF below THEN ScrollDown(v, 1) ELSE v
        y1 == IF below THEN v1.Height + v1.Topline - 1 ELSE ya
        y2 == IF y1 < 0 THEN 0 ELSE y1
        x2 == IF xa < 0 THEN 0 ELSE xa
        loc == GetSoftWrapLocation(v1, x2, y1)
        newX == IF loc.X > Count(Line(v1, loc.Y)) THEN Count(Line(v1, loc.Y)) ELSE loc.X
    IN  [v |-> v1, X |-> newX, Y |-> loc.Y]
GetMouseClickLocation(v, x, y) ==
    LET xa == x - (v.lineNumOffset - v.leftCol + v.x)
        ya == y + v.Topline - v.y
        below == ya - v.Topline > v.Height - 1
        v1 == IF below THEN ScrollDown(v, 1) ELSE v
        y1 == IF below THEN v1.Height + v1.Topline - 1 ELSE ya
        y2 == IF y1 < 0 THEN 0 ELSE y1
        x2 == IF xa < 0 THEN 0 ELSE xa
        loc == GetSoftWrapLocation(v1, x2, y2)
        newX == IF loc.X > Count(Line(v1, loc.Y)) THEN Count(Line(v1, loc.Y)) ELSE loc.X
    IN  [v |-> v1, X |-> newX, Y |-> loc.Y]

\* HandleEvent, a mouse event with no button after a single click: the
\* position of the event is taken relative to the pane and to the scroll
\* offsets, and the cursor is moved there.
Release(v, x, y) ==
    MoveToMouseClick(v, x - (v.lineNumOffset - v.leftCol + v.x), y + v.Topline - v.y)

\* The head of DisplayView for a view that shows a buffer: under soft wrap
\* leftCol is set to 0.
DisplayView(v) ==
    IF v.softwrap /\ v.leftCol # 0 THEN [v EXCEPT !.leftCol = 0] ELSE v

\* The end of HandleEvent: if relocate { v.Relocate(); v.Relocate() }
RelocatePasses(v) == Relocate(Relocate(v).v).v

\* The locations a cursor is moved to: 0 <= Y < NumLines, 0 <= X <= length of
\* line Y, on one of the first or of the last MaxLines lines of the buffer
\* or on the line in its middle.
Locs(v) ==
    { [X |-> p[1], Y |-> p[2]] : p \in
        { q \in (0 .. MaxLen) \X (0 .. NumLines(v) - 1) :
            /\ \/ q[2] < MaxLines
               \/ q[2] >= NumLines(v) - MaxLines
               \/ q[2] = NumLines(v) \div 2
            /\ q[1] <= Count(Line(v, q[2])) } }

\* The frame of an operation of the view: only Topline, leftCol and the cursor change.
SetView(v, op) ==
    \E w \in {v} :
        /\ Topline' = w.Topline
        /\ leftCol' = w.leftCol
        /\ cursorLoc' = w.Cursor
        /\ lastOp' = op
        /\ UNCHANGED <<lines, softwrap, scrollmargin, tabsize, Width, Height, lineNumOffset>>
        /\ UNCHANGED notViewVars

\* HandleEvent for a key whose binding (or rune insertion) moves the active
\* cursor and asks for relocation: the two relocation passes follow.
HandleEventMove ==
    \E loc \in Locs(ThisView) :
        SetView(RelocatePasses([ThisView EXCEPT !.Cursor = loc]), "HandleEvent")

\* A single call of Relocate (ReOpen, OpenBuffer, DisplayView of a log view).
RelocateCall ==
    SetView(Relocate(ThisView).v, "Relocate")

\* ScrollUp and ScrollDown, called with 1 or with the scroll speed.
ScrollUpCall ==
    \E n \in {1, DefaultScrollspeed} : SetView(ScrollUp(ThisView, n), "ScrollUp")

ScrollDownCall ==
    \E n \in {1, DefaultScrollspeed} : SetView(ScrollDown(ThisView, n), "ScrollDown")

\* MoveToMouseClick with the coordinates HandleEvent and MousePress pass on.
MoveToMouseClickCall ==
    \E x \in -1 .. MaxWidth, y \in -1 .. MaxLines + 1 :
        SetView(MoveToMouseClick(ThisView, x, y), "MoveToMouseClick")

\* The positions e.Position() of a mouse event: the cells of the pane and the
\* row below it.
Cells == (0 .. MaxWidth - 1) \X (0 .. MaxHeight)

\* HandleEvent for the release of the button after a single click.
ReleaseCall ==
    \E c \in Cells : SetView(Release(ThisView, c[1], c[2]), "Release")

\* GetMouseClickLocation, called for the position of a mouse event; the
\* view after the call depends on the row of the event only.
GetMouseClickLocationCall ==
    \E y \in 0 .. MaxHeight :
        SetView(GetMouseClickLocation(ThisView, 0, y).v, "GetMouseClickLocation")

\* RedrawAll: the view is displayed.
DisplayViewCall ==
    SetView(DisplayView(ThisView), "DisplayView")

\* SetLocalOption("softwrap", value, v), run by the handler of a key:
\* buf.Settings[option] = nativeValue
SetSoftwrapCall ==
    /\ \E b \in BOOLEAN : softwrap' = b
    /\ lastOp' = "SetLocalOption"
    /\ UNCHANGED <<lines, scrollmargin, tabsize, Width, Height, lineNumOffset,
                   Topline, leftCol, cursorLoc>>
    /\ UNCHANGED notViewVars

NextView ==
    \/ HandleEventMove
    \/ RelocateCall
    \/ ScrollUpCall
    \/ ScrollDownCall

NextWrap ==
    \/ ScrollUpCall
    \/ ScrollDownCall
    \/ MoveToMouseClickCall

\* The events of the mouse and of the keys between two redraws, and the
\* redraws.
NextMouse ==
    \/ HandleEventMove
    \/ ReleaseCall
    \/ GetMouseClickLocationCall
    \/ SetSoftwrapCall
    \/ DisplayViewCall


(***************************************************************************)
(* The multi-cursor command executor: View.HandleEvent, ExecuteActions and *)
(* SetCursor, for one view v of the current tab.                           *)
(***************************************************************************)

\* var vtDefault ... vtTerm
vtDefault == [Kind |-> 0, Readonly |-> FALSE, Scratch |-> FALSE]
vtHelp == [Kind |-> 1, Readonly |-> TRUE, Scratch |-> TRUE]
vtLog == [Kind |-> 2, Readonly |-> TRUE, Scratch |-> TRUE]
vtScratch == [Kind |-> 3, Readonly |-> FALSE, Scratch |-> TRUE]
vtRaw == [Kind |-> 4, Readonly |-> TRUE, Scratch |-> TRUE]
vtTerm == [Kind |-> 5, Readonly |-> TRUE, Scratch |-> TRUE]

\* Function names as ShortFuncName returns them, spelled character by
\* character so that strings.Contains is a test on substrings.
CursorLeft == <<"C", "u", "r", "s", "o", "r", "L", "e", "f", "t">>
Paste == <<"P", "a", "s", "t", "e">>
RemoveAllMultiCursors ==
    <<"R", "e", "m", "o", "v", "e", "A", "l", "l",
      "M", "u", "l", "t", "i", "C", "u", "r", "s", "o", "r", "s">>
ToggleMacro == <<"T", "o", "g", "g", "l", "e", "M", "a", "c", "r", "o">>
PlayMacro == <<"P", "l", "a", "y", "M", "a", "c", "r", "o">>

\* The actions a binding can list, and the lists: the values of the bindings map.
ActionNames == {CursorLeft, Paste, RemoveAllMultiCursors, ToggleMacro, PlayMacro}
BindingLists == UNION { [1 .. n -> ActionNames] : n \in 1 .. MaxActions }

\* readonlyBindingsList of ExecuteActions
readonlyBindingsList ==
    << <<"D", "e", "l", "e", "t", "e">>,
       <<"I", "n", "s", "e", "r", "t">>,
       <<"B", "a", "c", "k", "s", "p", "a", "c", "e">>,
       <<"C", "u", "t">>,
       <<"P", "l", "a", "y">>,
       <<"P", "a", "s", "t", "e">>,
       <<"M", "o", "v", "e">>,
       <<"A", "d", "d">>,
       <<"D", "u", "p", "l", "i", "c", "a", "t", "e", "L", "i", "n", "e">>,
       <<"M", "a", "c", "r", "o">> >>

\* strings.Contains(s, substr)
Contains(s, substr) ==
    \E i \in 1 .. Len(s) - Len(substr) + 1 :
        SubSeq(s, i, i + Len(substr) - 1) = substr

\* For every action name, whether it contains an entry of readonlyBindingsList.
MatchesReadonly ==
    [funcName \in ActionNames |->
        \E j \in DOMAIN readonlyBindingsList :
            Contains(funcName, readonlyBindingsList[j])]

\* A nil *Cursor, and the cursor &v.Buf.Cursor: the first of Buf.cursors.
NilCursor == [id |-> 0, Num |-> 0, Loc |-> 0]
PrimaryId == 1

\* The state HandleEvent works on: arr is the array behind Buf.cursors as the
\* range loops see it, len the length of the slice Buf.cursors.
ThisDispatch ==
    [arr |-> cursors, len |-> Len(cursors), vCursor |-> vCursor,
     curCursor |-> curCursor, recordingMacro |-> recordingMacro,
     curMacro |-> curMacro, trace |-> <<>>, quiet |-> {}, hook |-> FALSE]

\* CurView().Type
CurViewType == IF curView = "v" THEN vType ELSE otherType

\* One entry of the record of calls: the call, the function name or rune, the
\* view handed to an action, v.Cursor and v.Buf.curCursor at the call, and
\* the bool an action has returned.
Entry(op, name, cursor, num, ret) ==
    [op |-> op, name |-> name, view |-> curView, cursor |-> cursor, num |-> num,
     ret |-> ret]
LogRet(d, op, name, cursor, ret) ==
    [d EXCEPT !.trace = Append(@, Entry(op, name, cursor, d.curCursor, ret))]
Log(d, op, name, cursor) == LogRet(d, op, name, cursor, FALSE)

\* func (v *View) SetCursor(c *Cursor) bool
SetCursorMut(d, c) ==
    IF c = NilCursor THEN [d |-> Log(d, "SetCursor", <<>>, 0), ok |-> TRUE]
    ELSE [d |-> Log([d EXCEPT !.vCursor = c.id, !.curCursor = c.Num],
                    "SetCursor", <<>>, c.id),
          ok |-> TRUE]
SetCursor(d, c) ==
    IF c = NilCursor THEN [d |-> Log(d, "SetCursor", <<>>, 0), ok |-> FALSE]
    ELSE [d |-> Log([d EXCEPT !.vCursor = c.id, !.curCursor = c.Num],
                    "SetCursor", <<>>, c.id),
          ok |-> TRUE]

\* v.SetCursor(&v.Buf.Cursor) after the cursor loops
ResetCursorMut(d) == d
ResetCursor(d) == SetCursor(d, d.arr[1]).d

\* The cursor v.Cursor points to moves to location x, if the buffer still holds it.
MoveActive(d, x) ==
    [d EXCEPT !.arr = [i \in DOMAIN d.arr |->
        IF d.arr[i] # NilCursor /\ d.arr[i].id = d.vCursor
        THEN [d.arr[i] EXCEPT !.Loc = x] ELSE d.arr[i]]]

\* Loc of the cursor v.Cursor points to (0 for a cursor the buffer dropped).
ActiveLoc(d) ==
    LET here == { i \in DOMAIN d.arr : d.arr[i] # NilCursor /\ d.arr[i].id = d.vCursor }
    IN  IF here = {} THEN 0 ELSE d.arr[CHOOSE i \in here : TRUE].Loc

\* Buffer.ClearCursors: every cursor but the first is set to nil and the
\* slice is cut to length 1.
ClearCursors(d) ==
    [d EXCEPT !.arr = [i \in DOMAIN d.arr |-> IF i = 1 THEN d.arr[1] ELSE NilCursor],
              !.len = 1]

\* The bool action(curv, true) returns: false for RemoveAllMultiCursors, and
\* for the other actions whatever the body of the action answers for the
\* cursor it is called with, false for the cursors of d.quiet.
Returns(d, action) ==
    /\ action # RemoveAllMultiCursors
    /\ d.vCursor \notin d.quiet

\* action(curv, true): what the action does and the bool it returns.  Changes
\* of the cursors are those of the view the action is given: they show in the
\* cursors of v only if v is the current view.  The macro state is global.
Invoke(d, action) ==
    LET ret == Returns(d, action)
        d1 == LogRet(d, "Action", action, d.vCursor, ret)
        onV == curView = "v"
    IN  IF action = CursorLeft
        THEN [d |-> IF onV /\ ActiveLoc(d1) > 0
                    THEN MoveActive(d1, ActiveLoc(d1) - 1) ELSE d1,
              ret |-> ret]
        ELSE IF action = RemoveAllMultiCursors
        THEN [d |-> IF onV THEN ClearCursors(d1) ELSE d1, ret |-> ret]
        ELSE IF action = ToggleMacro
        THEN [d |-> [d1 EXCEPT !.recordingMacro = ~@,
                               !.curMacro = IF d1.recordingMacro THEN @ ELSE <<>>],
              ret |-> ret]
        ELSE [d |-> d1, ret |-> ret]

\* The loop of ExecuteActions from action k on.
RECURSIVE ExecLoop(_, _, _, _)
ExecLoopMut(d, actions, k, relocate) ==
    IF k > Len(actions) THEN [d |-> d, ret |-> relocate]
    ELSE LET action == actions[k]
             funcName == action
             readonlyBindingsResult ==
                 /\ CurViewType.Readonly
                 /\ MatchesReadonly[funcName]
         IN  IF readonlyBindingsResult THEN ExecLoop(d, actions, k + 1, relocate)
             ELSE LET r == Invoke(d, action)
                      d2 == IF r.d.recordingMacro
                            THEN [r.d EXCEPT !.curMacro = Append(@, action)]
                            ELSE r.d
                  IN  ExecLoop(d2, actions, k + 1, r.ret \/ relocate)
ExecLoop(d, actions, k, relocate) ==
    IF k > Len(actions) THEN [d |-> d, ret |-> relocate]
    ELSE LET action == actions[k]
             funcName == action
             readonlyBindingsResult ==
                 /\ CurViewType.Readonly
                 /\ MatchesReadonly[funcName]
         IN  IF readonlyBindingsResult THEN ExecLoop(d, actions, k + 1, relocate)
             ELSE LET r == Invoke(d, action)
                      d2 == IF /\ funcName # ToggleMacro
                               /\ funcName # PlayMacro
                               /\ r.d.recordingMacro
                            THEN [r.d EXCEPT !.curMacro = Append(@, action)]
                            ELSE r.d
                  IN  ExecLoop(d2, actions, k + 1, r.ret \/ relocate)

\* func (v *View) ExecuteActions(actions []func(*View, bool) bool) bool
ExecuteActions(d, actions) == ExecLoop(d, actions, 1, FALSE)

\* The loop "for _, c := range v.Buf.cursors" of a binding, from entry i on:
\* the key and escape-sequence branches set relocate to false before every
\* ExecuteActions (reset), the mouse branch does not.
RECURSIVE BindingLoop(_, _, _, _, _, _)
BindingLoopMut(d, actions, i, n, relocate, reset) ==
    IF i > n THEN [d |-> d, relocate |-> relocate]
    ELSE LET s == SetCursor(d, d.arr[i])
             x == ExecuteActions(s.d, actions)
         IN  BindingLoop(x.d, actions, i + 1, n,
                         x.ret \/ (IF reset THEN FALSE ELSE relocate), reset)
BindingLoop(d, actions, i, n, relocate, reset) ==
    IF i > n THEN [d |-> d, relocate |-> relocate]
    ELSE LET s == SetCursor(d, d.arr[i])
         IN  IF ~s.ok THEN [d |-> s.d, relocate |-> relocate]
             ELSE LET x == ExecuteActions(s.d, actions)
                  IN  BindingLoop(x.d, actions, i + 1, n,
                                  x.ret \/ (IF reset THEN FALSE ELSE relocate), reset)

\* Buffer.MergeCursors: of the cursors at one location the first stays, the
\* cursors left are renumbered and curCursor is kept inside the set.
RECURSIVE Compact(_, _)
Compact(cs, i) ==
    IF i > Len(cs) THEN <<>>
    ELSE IF /\ cs[i] # NilCursor
            /\ \A j \in 1 .. i - 1 : cs[j] = NilCursor \/ cs[j].Loc # cs[i].Loc
         THEN <<cs[i]>> \o Compact(cs, i + 1)
         ELSE Compact(cs, i + 1)

MergeCursors(d) ==
    LET kept == Compact(SubSeq(d.arr, 1, d.len), 1)
        renum == [i \in DOMAIN kept |-> [kept[i] EXCEPT !.Num = i - 1]]
        d1 == [d EXCEPT !.arr = renum, !.len = Len(renum),
                        !.curCursor = IF @ >= Len(renum) THEN Len(renum) - 1 ELSE @]
    IN  Log(d1, "MergeCursors", <<>>, d1.vCursor)

\* The end of a binding dispatch: v.SetCursor(&v.Buf.Cursor); v.Buf.MergeCursors()
AfterBinding(d) == MergeCursors(ResetCursor(d))

\* e.Rune(), as an item of curMacro
TypedRune == <<"x">>

\* The loop of the typed-rune branch from entry i on: SetCursor without a look
\* at its result, the insertion at v.Cursor.Loc with the calls of
\* Completer.Process and of the onRune hooks that follow it, the macro.  A
\* hook is plugin code that is handed the view: it may call
\* RemoveAllMultiCursors.
RECURSIVE RuneLoop(_, _, _)
RuneLoop(d, i, n) ==
    IF i > n THEN d
    ELSE LET d1 == SetCursor(d, d.arr[i]).d
             d2 == MoveActive(Log(d1, "Insert", TypedRune, d1.vCursor), ActiveLoc(d1) + 1)
             d3 == IF d2.hook THEN ClearCursors(d2) ELSE d2
             d4 == IF d3.recordingMacro
                   THEN [d3 EXCEPT !.curMacro = Append(@, TypedRune)] ELSE d3
         IN  RuneLoop(d4, i + 1, n)

\* The loop of the paste branch from entry i on: SetCursor, v.paste(e.Text()).
RECURSIVE PasteLoop(_, _, _)
PasteLoop(d, i, n) ==
    IF i > n THEN d
    ELSE LET d1 == SetCursor(d, d.arr[i]).d
             d2 == MoveActive(Log(d1, "paste", <<>>, d1.vCursor), ActiveLoc(d1) + 1)
         IN  PasteLoop(d2, i + 1, n)

\* The switch of HandleEvent on the type of the event: the state it leaves
\* and the local relocate.
EventSwitchMut(d, e) ==
    LET n == d.len
    IN  IF e.kind = "Raw"
        THEN IF e.bound
             THEN LET b == BindingLoop(d, e.actions, 1, n, TRUE, TRUE)
                  IN  [d |-> AfterBinding(b.d), relocate |-> b.relocate]
             ELSE [d |-> d, relocate |-> TRUE]
        ELSE IF e.kind = "Key"
        THEN IF e.completer THEN [d |-> d, relocate |-> TRUE]
             ELSE IF e.bound
             THEN LET b == BindingLoop(d, e.actions, 1, n, TRUE, TRUE)
                  IN  [d |-> AfterBinding(b.d), relocate |-> b.relocate]
             ELSE IF e.rune /\ ~vType.Readonly
             THEN [d |-> ResetCursor(RuneLoop(d, 1, n)), relocate |-> TRUE]
             ELSE [d |-> d, relocate |-> TRUE]
        ELSE IF e.kind = "Paste"
        THEN IF e.pre
             THEN [d |-> ResetCursor(PasteLoop(d, 1, n)), relocate |-> TRUE]
             ELSE [d |-> d, relocate |-> TRUE]
        ELSE IF e.bound
             THEN LET b == BindingLoop(d, e.actions, 1, n, FALSE, FALSE)
                  IN  [d |-> AfterBinding(b.d), relocate |-> b.relocate]
             ELSE [d |-> d, relocate |-> FALSE]
EventSwitch(d, e) ==
    LET n == d.len
    IN  IF e.kind = "Raw"
        THEN IF e.bound
             THEN LET b == BindingLoop(d, e.actions, 1, n, TRUE, TRUE)
                  IN  [d |-> AfterBinding(b.d), relocate |-> b.relocate]
             ELSE [d |-> d, relocate |-> TRUE]
        ELSE IF e.kind = "Key"
        THEN IF e.completer THEN [d |-> d, relocate |-> TRUE]
             ELSE IF e.bound
             THEN LET b == BindingLoop(d, e.actions, 1, n, TRUE, TRUE)
                  IN  [d |-> AfterBinding(b.d), relocate |-> b.relocate]
             ELSE IF e.rune /\ ~vType.Readonly
             THEN [d |-> ResetCursor(RuneLoop(d, 1, n)), relocate |-> TRUE]
             ELSE [d |-> d, relocate |-> TRUE]
        ELSE IF e.kind = "Paste"
        THEN IF ~vType.Readonly /\ e.pre
             THEN [d |-> ResetCursor(PasteLoop(d, 1, n)), relocate |-> TRUE]
             ELSE [d |-> d, relocate |-> TRUE]
        ELSE IF e.bound
             THEN LET b == BindingLoop(d, e.actions, 1, n, FALSE, FALSE)
                  IN  [d |-> AfterBinding(b.d), relocate |-> b.relocate]
             ELSE [d |-> d, relocate |-> FALSE]

\* func (v *View) HandleEvent(event tcell.Event)
HandleEvent(d, e) ==
    IF vType = vtTerm THEN Log(d, "term.HandleEvent", <<>>, d.vCursor)
    ELSE IF vType = vtRaw THEN Log(d, "RawInsert", <<>>, d.vCursor)
    ELSE LET s == EventSwitch([d EXCEPT !.quiet = e.quiet, !.hook = e.hook], e)
         IN  IF s.relocate
             THEN Log(Log(s.d, "Relocate", <<>>, s.d.vCursor), "Relocate", <<>>, s.d.vCursor)
             ELSE s.d

\* The events, as far as HandleEvent tells them apart: the actions bound to
\* the event if a binding matches it, whether a key is a rune, whether the
\* completer takes the key, what PreActionCall("Paste", v) answers, the
\* cursors for which the actions bound to the event return false, and
\* whether an onRune hook of a plugin removes the multiple cursors.
Ev(kind, bound, actions, rune, completer, pre) ==
    [kind |-> kind, bound |-> bound, actions |-> actions, rune |-> rune,
     completer |-> completer, pre |-> pre, quiet |-> {}, hook |-> FALSE]

NoEvent == Ev("none", FALSE, <<>>, FALSE, FALSE, FALSE)

ViewEvents ==
    { Ev(k, TRUE, a, FALSE, FALSE, TRUE) : k \in {"Raw", "Key", "Mouse"}, a \in BindingLists }
    \cup { Ev(k, FALSE, <<>>, FALSE, FALSE, TRUE) : k \in {"Raw", "Key", "Mouse"} }
    \cup { Ev("Key", FALSE, <<>>, TRUE, FALSE, TRUE), Ev("Key", FALSE, <<>>, FALSE, TRUE, TRUE) }
    \cup { Ev("Paste", FALSE, <<>>, FALSE, FALSE, p) : p \in BOOLEAN }

\* main hands v an event when v is the current view, and a wheel event also
\* when v is another view of the tab that lies under the mouse.
EventsFor == IF curView = "v" THEN ViewEvents ELSE { e \in ViewEvents : e.kind = "Mouse" }

\* The events of a binding whose actions return false for some cursors: an
\* action that answers by the selection, the line or the column of the
\* cursor it is called with.
QuietEvents ==
    { [e EXCEPT !.quiet = q] :
        e \in { b \in ViewEvents : b.bound },
        q \in (SUBSET (1 .. MaxCursors)) \ {{}} }

\* One call v.HandleEvent(event).
HandleEventCall ==
    /\ lastEvent = NoEvent
    /\ \E e \in EventsFor :
        \E d \in {HandleEvent(ThisDispatch, e)} :
            /\ Len(d.curMacro) <= MaxMacro
            /\ \A i \in 1 .. d.len : d.arr[i].Loc <= MaxCol
            /\ cursors' = SubSeq(d.arr, 1, d.len)
            /\ vCursor' = d.vCursor
            /\ curCursor' = d.curCursor
            /\ recordingMacro' = d.recordingMacro
            /\ curMacro' = d.curMacro
            /\ trace' = d.trace
            /\ lastEvent' = e
            /\ before' = cursors
            /\ UNCHANGED <<vType, curView, otherType>>
            /\ UNCHANGED notDispVars

\* main, a left click inside a view of the tab: tabs[curTab].CurView = v.Num,
\* for v or for another view, an editable one or a help view.
SetCurView ==
    /\ lastEvent = NoEvent
    /\ \/ curView' = "v" /\ otherType' = vtDefault
       \/ curView' = "other" /\ otherType' \in {vtDefault, vtHelp}
    /\ UNCHANGED <<cursors, vCursor, curCursor, recordingMacro, curMacro, trace,
                   lastEvent, before, vType>>
    /\ UNCHANGED notDispVars

\* HandleEvent has returned and main goes on to its next event: the record
\* of the call is dropped.
Returned ==
    /\ lastEvent # NoEvent
    /\ trace' = <<>>
    /\ lastEvent' = NoEvent
    /\ before' = <<>>
    /\ UNCHANGED <<cursors, vCursor, curCursor, recordingMacro, curMacro,
                   vType, curView, otherType>>
    /\ UNCHANGED notDispVars

\* One call v.HandleEvent(event) for a binding whose actions do not all
\* return true.
HandleEventQuiet ==
    /\ lastEvent = NoEvent
    /\ curView = "v"
    /\ \E e \in QuietEvents :
        \E d \in {HandleEvent(ThisDispatch, e)} :
            /\ Len(d.curMacro) <= MaxMacro
            /\ \A i \in 1 .. d.len : d.arr[i].Loc <= MaxCol
            /\ cursors' = SubSeq(d.arr, 1, d.len)
            /\ vCursor' = d.vCursor
            /\ curCursor' = d.curCursor
            /\ recordingMacro' = d.recordingMacro
            /\ curMacro' = d.curMacro
            /\ trace' = d.trace
            /\ lastEvent' = e
            /\ before' = cursors
            /\ UNCHANGED <<vType, curView, otherType>>
            /\ UNCHANGED notDispVars

NextDispatch ==
    \/ HandleEventCall
    \/ SetCurView
    \/ Returned

NextRelocate ==
    \/ HandleEventQuiet
    \/ Returned

\* The typed rune that matches no binding, with a plugin whose onRune hook
\* removes the multiple cursors of the view.
HookEvents == { [Ev("Key", FALSE, <<>>, TRUE, FALSE, TRUE) EXCEPT !.hook = TRUE] }

\* One call v.HandleEvent(event) for a rune typed with such a plugin loaded.
HandleEventHook ==
    /\ lastEvent = NoEvent
    /\ curView = "v"
    /\ \E e \in HookEvents :
        \E d \in {HandleEvent(ThisDispatch, e)} :
            /\ Len(d.curMacro) <= MaxMacro
            /\ \A i \in 1 .. d.len : d.arr[i].Loc <= MaxCol
            /\ cursors' = SubSeq(d.arr, 1, d.len)
            /\ vCursor' = d.vCursor
            /\ curCursor' = d.curCursor
            /\ recordingMacro' = d.recordingMacro
            /\ curMacro' = d.curMacro
            /\ trace' = d.trace
            /\ lastEvent' = e
            /\ before' = cursors
            /\ UNCHANGED <<vType, curView, otherType>>
            /\ UNCHANGED notDispVars

\* The events typed and pasted into the current view.
NextTyping ==
    \/ HandleEventCall
    \/ HandleEventHook
    \/ Returned

(***************************************************************************)
(* The click classifier: the click state of a View, the left-button press  *)
(* that classifies a click, and the release seen by HandleEvent.           *)
(***************************************************************************)

\* time.Time{}: a time long before the first click.
ZeroTime == 0 - 10 * doubleClickThreshold

\* The time between one click and the next, in milliseconds, and the buffer
\* locations clicked.
Gaps == {100, doubleClickThreshold, 500}
ClickLocs == { [X |-> 0, Y |-> 0], [X |-> 1, Y |-> 0] }

\* OpenBuffer: mouseReleased = true, lastClickTime = time.Time{}
InitClick ==
    /\ now = 0
    /\ lastClickTime = ZeroTime
    /\ lastLoc = [X |-> 0, Y |-> 0]
    /\ doubleClick = FALSE
    /\ tripleClick = FALSE
    /\ mouseReleased = TRUE
    /\ clickLog = <<>>

\* The class of a click at time t and location loc: Double if it comes less
\* than the threshold after the last click and at its location, Triple if
\* the last click was flagged a double click as well, else Single.
Classify(t, loc) ==
    IF t - lastClickTime < doubleClickThreshold /\ loc = lastLoc
    THEN IF doubleClick THEN "Triple" ELSE "Double"
    ELSE "Single"

\* A press of the left button with the mouse released before: the click is
\* classified, the flags and the time of the click are recorded.
MousePress ==
    /\ mouseReleased
    /\ Len(clickLog) < MaxClicks
    /\ \E gap \in Gaps, loc \in ClickLocs :
         \E class \in {Classify(now + gap, loc)} :
            /\ now' = now + gap
            /\ lastClickTime' = now + gap
            /\ doubleClick' = (class = "Double")
            /\ tripleClick' = (class = "Triple")
            /\ lastLoc' = loc
            /\ mouseReleased' = FALSE
            /\ clickLog' = Append(clickLog, [gap |-> gap, loc |-> loc, class |-> class])
    /\ UNCHANGED notClickVars

\* HandleEvent, a mouse event with no button while mouseReleased is false:
\* the release.
MouseRelease ==
    /\ ~mouseReleased
    /\ mouseReleased' = TRUE
    /\ UNCHANGED <<now, lastClickTime, lastLoc, doubleClick, tripleClick, clickLog>>
    /\ UNCHANGED notClickVars

\* HandleEvent, a mouse event with no button: if the mouse was not released
\* before, the cursor and the end of the selection are moved to the position
\* of the event unless the click was a double or a triple click, and the
\* mouse is released.
ButtonNoneMut ==
    /\ \E c \in Cells :
          IF ~mouseReleased
          THEN /\ \E w \in {Release(ThisView, c[1], c[2])} :
                     /\ Topline' = w.Topline
                     /\ leftCol' = w.leftCol
                     /\ cursorLoc' = w.Cursor
                     /\ curSelectionEnd' = w.Cursor
               /\ mouseReleased' = TRUE
          ELSE UNCHANGED <<Topline, leftCol, cursorLoc, curSelectionEnd, mouseReleased>>
    /\ lastOp' = "ButtonNone"
    /\ UNCHANGED <<lines, softwrap, scrollmargin, tabsize, Width, Height, lineNumOffset>>
    /\ UNCHANGED <<now, lastClickTime, lastLoc, doubleClick, tripleClick, clickLog>>
    /\ UNCHANGED <<loopVars, dispVars, paneVars, rowVars, setVars, optVars, hookVars, closeVars, hashVars>>
ButtonNone ==
    /\ \E c \in Cells :
          IF ~mouseReleased
          THEN /\ IF ~doubleClick /\ ~tripleClick
                  THEN \E w \in {Release(ThisView, c[1], c[2])} :
                          /\ Topline' = w.Topline
                          /\ leftCol' = w.leftCol
                          /\ cursorLoc' = w.Cursor
                          /\ curSelectionEnd' = w.Cursor
                  ELSE UNCHANGED <<Topline, leftCol, cursorLoc, curSelectionEnd>>
               /\ mouseReleased' = TRUE
          ELSE UNCHANGED <<Topline, leftCol, cursorLoc, curSelectionEnd, mouseReleased>>
    /\ lastOp' = "ButtonNone"
    /\ UNCHANGED <<lines, softwrap, scrollmargin, tabsize, Width, Height, lineNumOffset>>
    /\ UNCHANGED <<now, lastClickTime, lastLoc, doubleClick, tripleClick, clickLog>>
    /\ UNCHANGED <<loopVars, dispVars, paneVars, rowVars, setVars, optVars, hookVars, closeVars, hashVars>>

\* func (v *View) ToggleStatusLine(): the height after the call.
ToggleStatusLine(height, on) ==
    IF on THEN height - 1 ELSE height + 1

\* func (v *View) ToggleTabbar(): the height and v.y after the call.
ToggleTabbar(height, y, n) ==
    IF n > 1
    THEN IF y = 0 THEN [Height |-> height - 1, y |-> 1] ELSE [Height |-> height, y |-> y]
    ELSE IF y = 1 THEN [Height |-> height + 1, y |-> 0] ELSE [Height |-> height, y |-> y]

\* What the actions on the rows of the pane leave alone of the view.
viewButHeight == <<lines, softwrap, scrollmargin, tabsize, Width, lineNumOffset,
                   Topline, leftCol, cursorLoc, lastOp>>

\* A tab is added or closed.
TabCount ==
    /\ \E n \in (1 .. MaxTabs) \ {numTabs} : numTabs' = n
    /\ UNCHANGED <<rawHeight, viewY, statusline, globalStatusline, numSets>>
    /\ UNCHANGED <<Height, viewButHeight>>
    /\ UNCHANGED <<loopVars, dispVars, clickVars, paneVars, selVars, setVars, optVars, hookVars, closeVars, hashVars>>

\* v.ToggleTabbar()
ToggleTabbarCall ==
    /\ \E t \in {ToggleTabbar(Height, viewY, numTabs)} :
          /\ Height' = t.Height
          /\ viewY' = t.y
    /\ UNCHANGED <<rawHeight, numTabs, statusline, globalStatusline, numSets>>
    /\ UNCHANGED viewButHeight
    /\ UNCHANGED <<loopVars, dispVars, clickVars, paneVars, selVars, setVars, optVars, hookVars, closeVars, hashVars>>

\* SetLocalOption("statusline", value, v):
\* buf.Settings[option] = nativeValue; view.ToggleStatusLine()
SetLocalOptionStatusline ==
    /\ numSets < MaxSets
    /\ \E b \in BOOLEAN :
          /\ statusline' = b
          /\ Height' = ToggleStatusLine(Height, b)
    /\ numSets' = numSets + 1
    /\ UNCHANGED <<rawHeight, viewY, numTabs, globalStatusline>>
    /\ UNCHANGED viewButHeight
    /\ UNCHANGED <<loopVars, dispVars, clickVars, paneVars, selVars, setVars, optVars, hookVars, closeVars, hashVars>>

\* SetOption("statusline", value): globalSettings[option] = nativeValue,
\* then SetLocalOption for every view of every tab.
SetOptionStatusline ==
    /\ numSets < MaxSets
    /\ \E b \in BOOLEAN :
          /\ globalStatusline' = b
          /\ statusline' = b
          /\ Height' = ToggleStatusLine(Height, b)
    /\ numSets' = numSets + 1
    /\ UNCHANGED <<rawHeight, viewY, numTabs>>
    /\ UNCHANGED viewButHeight
    /\ UNCHANGED <<loopVars, dispVars, clickVars, paneVars, selVars, setVars, optVars, hookVars, closeVars, hashVars>>

\* The tabs, the tab bar and the statusline option of one view.
NextRows ==
    \/ TabCount
    \/ ToggleTabbarCall
    \/ SetLocalOptionStatusline
    \/ SetOptionStatusline

\* What settings.json can hold: no file; the text "null"; a text that begins
\* with "null" and does not parse; a text that parses; a text that does not
\* parse; a file that cannot be read.
FileKinds == {"missing", "null", "nullText", "valid", "corrupt", "unreadable"}

\* json5.Unmarshal(input, &parsed) returns an error.
ParseFails(file) == file \in {"nullText", "corrupt"}

\* func WriteSettings(filename string) error, with the flag and the file
\* before the call: the flag and the file after it, whether the file was
\* written and whether reading or parsing it failed.
WriteSettings(invalid, file) ==
    IF invalid
    THEN [invalid |-> invalid, file |-> file, wrote |-> FALSE, failed |-> FALSE]
    ELSE IF file = "missing" \/ file = "null"
    THEN [invalid |-> invalid, file |-> "valid", wrote |-> TRUE, failed |-> FALSE]
    ELSE IF file = "unreadable"
    THEN [invalid |-> invalid, file |-> file, wrote |-> FALSE, failed |-> TRUE]
    ELSE [invalid |-> ParseFails(file), file |-> "valid", wrote |-> TRUE,
          failed |-> ParseFails(file)]

\* The settings after an operation that has set the option to value and
\* ends in the result r of WriteSettings: a written file holds the value of
\* the option.
SetSettings(r, value, op) ==
    /\ invalidSettings' = r.invalid
    /\ settingsFile' = r.file
    /\ optionValue' = value
    /\ fileValue' = (IF r.wrote THEN value ELSE fileValue)
    /\ wrote' = r.wrote
    /\ readFailed' = (readFailed \/ r.failed)
    /\ settingsOp' = op
    /\ UNCHANGED notSetVars

\* The result of an operation that does not call WriteSettings.
NoWrite(invalid, failed) ==
    [invalid |-> invalid, file |-> settingsFile, wrote |-> FALSE, failed |-> failed]

\* func InitGlobalSettings(), called once when the editor starts.
InitGlobalSettings ==
    /\ settingsOp = "start"
    /\ SetSettings(
          IF settingsFile = "missing" THEN WriteSettings(FALSE, settingsFile)
          ELSE IF settingsFile \in {"null", "nullText"} THEN WriteSettings(FALSE, settingsFile)
          ELSE IF settingsFile = "unreadable" THEN NoWrite(TRUE, TRUE)
          ELSE NoWrite(ParseFails(settingsFile), ParseFails(settingsFile)),
          IF settingsFile = "valid" THEN fileValue ELSE 0,
          "InitGlobalSettings")

\* func InitLocalSettings(buf *Buffer), called when a buffer is opened.
InitLocalSettings ==
    /\ settingsOp # "start"
    /\ SetSettings(
          IF settingsFile = "missing" THEN NoWrite(FALSE, FALSE)
          ELSE IF settingsFile = "unreadable" THEN NoWrite(TRUE, TRUE)
          ELSE NoWrite(ParseFails(settingsFile), ParseFails(settingsFile)),
          optionValue,
          "InitLocalSettings")

\* func AddOption(name string, value interface{}), called by a plugin.
AddOption ==
    /\ settingsOp # "start"
    /\ SetSettings(WriteSettings(invalidSettings, settingsFile), optionValue, "AddOption")

\* func SetOptionAndSettings(option, value string): nothing is written if
\* SetOption returns an error.
SetOptionAndSettings ==
    /\ settingsOp # "start"
    /\ \/ SetSettings(NoWrite(invalidSettings, FALSE), optionValue, "SetOptionAndSettings")
       \/ \E value \in 0 .. MaxValue :
             SetSettings(WriteSettings(invalidSettings, settingsFile), value,
                         "SetOptionAndSettings")

\* The user, or another program, changes the file.
EditSettingsFile ==
    /\ settingsOp # "start"
    /\ \E f \in FileKinds, value \in 0 .. MaxValue :
          /\ f # settingsFile \/ value # fileValue
          /\ f # "valid" => value = 0
          /\ settingsFile' = f
          /\ fileValue' = value
    /\ settingsOp' = "Edit"
    /\ wrote' = FALSE
    /\ UNCHANGED <<invalidSettings, optionValue, readFailed>>
    /\ UNCHANGED notSetVars

\* The operations on the settings.
NextSettings ==
    \/ InitGlobalSettings
    \/ InitLocalSettings
    \/ AddOption
    \/ SetOptionAndSettings
    \/ EditSettingsFile

\* The options of the model: the numeric options with a validator ("tabsize"
\* with validatePositiveValue; "scrollmargin" with validateNonNegativeValue,
\* as "scrollspeed" and "colorcolumn" have), a bool option that only a
\* buffer has, set by a glob or "ft:" entry of settings.json, and a name that
\* is no option.
NumOptions == {"tabsize", "scrollmargin"}
LocalOption == "localonly"
OptionNames == NumOptions \cup {LocalOption, "nosuch"}

\* The values of options: a float64, a bool, or no entry in the map.
Num(n) == [kind |-> "Float64", n |-> n]
Bool(b) == [kind |-> "Bool", n |-> IF b THEN 1 ELSE 0]
NoEntry == [kind |-> "none", n |-> 0]

\* The value strings a caller passes.
ValueStrings == {"-1", "0", "1", "x"}

\* strconv.Atoi(value)
Atoi(value) ==
    IF value = "-1" THEN [ok |-> TRUE, i |-> 0 - 1]
    ELSE IF value = "0" THEN [ok |-> TRUE, i |-> 0]
    ELSE IF value = "1" THEN [ok |-> TRUE, i |-> 1]
    ELSE [ok |-> FALSE, i |-> 0]

\* ParseBool(value)
ParseBool(value) ==
    IF value = "1" THEN [ok |-> TRUE, b |-> TRUE]
    ELSE IF value = "0" THEN [ok |-> TRUE, b |-> FALSE]
    ELSE [ok |-> FALSE, b |-> FALSE]

\* func DefaultGlobalSettings(), func DefaultLocalSettings()
DefaultGlobalSettings ==
    [o \in NumOptions |-> IF o = "tabsize" THEN Num(DefaultTabsize) ELSE Num(3)]
DefaultLocalSettings ==
    [o \in NumOptions \cup {LocalOption} |->
        IF o = LocalOption THEN NoEntry ELSE DefaultGlobalSettings[o]]

\* The conversion of value to the kind of the option's current value: the
\* native value, or the error.
NativeValue(current, value) ==
    IF current.kind = "Bool"
    THEN IF ParseBool(value).ok
         THEN [err |-> "nil", v |-> Bool(ParseBool(value).b)]
         ELSE [err |-> "Invalid value", v |-> NoEntry]
    ELSE IF Atoi(value).ok
         THEN [err |-> "nil", v |-> Num(Atoi(value).i)]
         ELSE [err |-> "Invalid value", v |-> NoEntry]

\* func optionIsValid(option string, value interface{}) error
optionIsValid(option, v) ==
    IF option = "tabsize"
    THEN IF v.kind # "Float64" THEN "Expected numeric type"
         ELSE IF v.n < 1 THEN "must be greater than 0" ELSE "nil"
    ELSE IF option = "scrollmargin"
    THEN IF v.kind # "Float64" THEN "Expected numeric type"
         ELSE IF v.n < 0 THEN "must be non-negative" ELSE "nil"
    ELSE "nil"

\* Whether the map has an entry for the option.
HasOption(settings, option) ==
    /\ option \in DOMAIN settings
    /\ settings[option] # NoEntry

\* func SetLocalOption(option, value string, view *View) error: the
\* Settings of the buffer after the call and the error.
SetLocalOption(settings, option, value) ==
    IF ~HasOption(settings, option)
    THEN [Settings |-> settings, err |-> "Invalid option"]
    ELSE LET nv == NativeValue(settings[option], value)
         IN  IF nv.err # "nil" THEN [Settings |-> settings, err |-> nv.err]
             ELSE IF optionIsValid(option, nv.v) # "nil"
             THEN [Settings |-> settings, err |-> optionIsValid(option, nv.v)]
             ELSE [Settings |-> [settings EXCEPT ![option] = nv.v], err |-> "nil"]

\* func SetOption(option, value string) error: both maps after the call and
\* the error.  An option that only the buffer has is handed to
\* SetLocalOption, whose error is dropped.
SetOption(global, settings, option, value) ==
    IF ~HasOption(global, option)
    THEN IF ~HasOption(settings, option)
         THEN [globalSettings |-> global, Settings |-> settings, err |-> "Invalid option"]
         ELSE [globalSettings |-> global,
               Settings |-> SetLocalOption(settings, option, value).Settings,
               err |-> "nil"]
    ELSE LET nv == NativeValue(global[option], value)
         IN  IF nv.err # "nil"
             THEN [globalSettings |-> global, Settings |-> settings, err |-> nv.err]
             ELSE IF optionIsValid(option, nv.v) # "nil"
             THEN [globalSettings |-> global, Settings |-> settings,
                   err |-> optionIsValid(option, nv.v)]
             ELSE [globalSettings |-> [global EXCEPT ![option] = nv.v],
                   Settings |-> IF HasOption(settings, option)
                                THEN SetLocalOption(settings, option, value).Settings
                                ELSE settings,
                   err |-> "nil"]

\* A call on the options.
Call(fn, option, value) == [fn |-> fn, option |-> option, value |-> value]
NoCall == Call("none", "", "")

\* SetOption(option, value), from a plugin or a command.
SetOptionCall ==
    /\ \E option \in OptionNames, value \in ValueStrings :
          \E r \in {SetOption(globalSettings, Settings, option, value)} :
             /\ globalSettings' = r.globalSettings
             /\ Settings' = r.Settings
             /\ optErr' = r.err
             /\ optCall' = Call("SetOption", option, value)
    /\ optWrote' = FALSE
    /\ UNCHANGED notOptVars

\* SetLocalOption(option, value, CurView()), from a plugin or a command.
SetLocalOptionCall ==
    /\ \E option \in OptionNames, value \in ValueStrings :
          \E r \in {SetLocalOption(Settings, option, value)} :
             /\ Settings' = r.Settings
             /\ optErr' = r.err
             /\ optCall' = Call("SetLocalOption", option, value)
    /\ optWrote' = FALSE
    /\ UNCHANGED globalSettings
    /\ UNCHANGED notOptVars

\* func SetOptionAndSettings(option, value string): the error of SetOption is
\* reported and nothing is written, else WriteSettings is called.
SetOptionAndSettingsCall ==
    /\ \E option \in OptionNames, value \in ValueStrings :
          \E r \in {SetOption(globalSettings, Settings, option, value)} :
             /\ globalSettings' = r.globalSettings
             /\ Settings' = r.Settings
             /\ optErr' = r.err
             /\ optWrote' = (r.err = "nil")
             /\ optCall' = Call("SetOptionAndSettings", option, value)
    /\ UNCHANGED notOptVars

\* func AddOption(name string, value interface{}), called by a plugin:
\* globalSettings[name] = value, then WriteSettings.
AddOptionCall ==
    /\ \E option \in NumOptions, n \in {0 - 1, 0, 1} :
          /\ globalSettings' = [globalSettings EXCEPT ![option] = Num(n)]
          /\ optCall' = Call("AddOption", option, "")
    /\ optErr' = "nil"
    /\ optWrote' = TRUE
    /\ UNCHANGED Settings
    /\ UNCHANGED notOptVars

\* func InitLocalSettings(buf *Buffer) with a glob or "ft:" entry of
\* settings.json that matches the buffer: buf.Settings[k1] = v1
InitLocalSettingsCall ==
    /\ \E option \in NumOptions \cup {LocalOption},
          v \in {Num(0 - 1), Num(0), Num(1), Bool(TRUE)} :
          /\ option = LocalOption <=> v.kind = "Bool"
          /\ Settings' = [Settings EXCEPT ![option] = v]
          /\ optCall' = Call("InitLocalSettings", option, "")
    /\ optErr' = "nil"
    /\ optWrote' = FALSE
    /\ UNCHANGED globalSettings
    /\ UNCHANGED notOptVars

\* The calls on the options.
NextOptions ==
    \/ SetOptionCall
    \/ SetLocalOptionCall
    \/ SetOptionAndSettingsCall
    \/ AddOptionCall
    \/ InitLocalSettingsCall

\* loadedPlugins
Plugins == 1 .. MaxPlugins

\* The texts of the errors Call returns: for a plugin that does not define
\* the function, and for a function that fails, where the Lua runtime puts
\* the position of the failure in front of the message.
DoesNotExist ==
    <<"f", "u", "n", "c", "t", "i", "o", "n", " ", "d", "o", "e", "s", " ",
      "n", "o", "t", " ", "e", "x", "i", "s", "t">>
ErrMissing == DoesNotExist \o <<":", " ", "p", ".", "h">>
ErrFailed == <<"p", ".", "l", "u", "a", ":", "1", ":", " ", "b", "a", "d">>
HookErrors == {<<>>, ErrMissing, ErrFailed}

\* strings.HasPrefix(s, prefix)
HasPrefix(s, prefix) ==
    /\ Len(s) >= Len(prefix)
    /\ SubSeq(s, 1, Len(prefix)) = prefix

\* err != nil && !strings.HasPrefix(err.Error(), "function does not exist")
Reported(err) == err # <<>> /\ ~HasPrefix(err, DoesNotExist)

\* NewViewWidthHeight comes to its loop over loadedPlugins, or the typed-rune
\* branch of HandleEvent does, after the insertion at a cursor.
StartHooks ==
    /\ hookKind = "none"
    /\ \E k \in {"onViewOpen", "onRune"} : hookKind' = k
    /\ remaining' = Plugins
    /\ hookErr' = <<>>
    /\ termMessages' = {}
    /\ completed' = {}
    /\ UNCHANGED notHookVars

\* One pass of the loop, for a plugin in the order the map gives: Call, and
\* TermMessage for an error that is not the absence of the function.
CallHookMut ==
    /\ hookKind # "none"
    /\ \E pl \in remaining, err \in HookErrors :
          /\ remaining' = IF Reported(err) THEN {} ELSE remaining \ {pl}
          /\ hookErr' = Append(hookErr, [pl |-> pl, err |-> err])
          /\ termMessages' = IF Reported(err) THEN termMessages \cup {pl}
                                               ELSE termMessages
    /\ UNCHANGED <<hookKind, completed>>
    /\ UNCHANGED notHookVars
CallHook ==
    /\ hookKind # "none"
    /\ \E pl \in remaining, err \in HookErrors :
          /\ remaining' = remaining \ {pl}
          /\ hookErr' = Append(hookErr, [pl |-> pl, err |-> err])
          /\ termMessages' = IF Reported(err) THEN termMessages \cup {pl}
                                               ELSE termMessages
    /\ UNCHANGED <<hookKind, completed>>
    /\ UNCHANGED notHookVars

\* The loop has ended: NewViewWidthHeight goes on and returns the view, the
\* rune branch goes on to the macro and the next cursor.
HooksDone ==
    /\ hookKind # "none"
    /\ remaining = {}
    /\ completed' = {hookKind}
    /\ hookKind' = "none"
    /\ UNCHANGED <<remaining, hookErr, termMessages>>
    /\ UNCHANGED notHookVars

\* The hooks of the plugins.
NextHooks ==
    \/ StartHooks
    \/ CallHook
    \/ HooksDone

\* The answers to messenger.YesNoPrompt("... before closing? (y,n,esc) "):
\* choice and canceled.
Answers == {"y", "n", "esc"}
Choice(answer) == answer = "y"
Canceled(answer) == answer = "esc"

NoClose ==
    [fn |-> "none", answer |-> "none", asked |-> FALSE, saved |-> FALSE,
     ret |-> FALSE, reloaded |-> FALSE]

\* func (v *View) CanClose() bool: whether the prompt is shown, whether
\* v.Save(true) is called, and the result, for the answer the prompt gets
\* if it is shown.
CanCloseMut(type, isModified, autosaveOn, answer) ==
    IF type = vtDefault /\ isModified
    THEN LET asked == ~autosaveOn
             choice == IF autosaveOn THEN TRUE ELSE Choice(answer)
             canceled == IF autosaveOn THEN FALSE ELSE Canceled(answer)
         IN  IF ~canceled
             THEN [asked |-> asked, saved |-> TRUE, ret |-> TRUE]
             ELSE [asked |-> asked, saved |-> FALSE, ret |-> FALSE]
    ELSE [asked |-> FALSE, saved |-> FALSE, ret |-> TRUE]
CanClose(type, isModified, autosaveOn, answer) ==
    IF type = vtDefault /\ isModified
    THEN LET asked == ~autosaveOn
             choice == IF autosaveOn THEN TRUE ELSE Choice(answer)
             canceled == IF autosaveOn THEN FALSE ELSE Canceled(answer)
         IN  IF ~canceled
             THEN [asked |-> asked, saved |-> choice, ret |-> TRUE]
             ELSE [asked |-> asked, saved |-> FALSE, ret |-> FALSE]
    ELSE [asked |-> FALSE, saved |-> FALSE, ret |-> TRUE]

\* One call v.CanClose().  v.Save(true) writes the buffer, or fails to and
\* leaves it modified.
CanCloseCall ==
    /\ \E answer \in Answers :
        \E c \in {CanClose(closeType, bufModified, bufAutosave, answer)} :
            /\ closeOp' = [fn |-> "CanClose", answer |-> answer, asked |-> c.asked,
                           saved |-> c.saved, ret |-> c.ret, reloaded |-> FALSE]
            /\ IF c.saved THEN bufModified' \in {FALSE, bufModified}
                          ELSE bufModified' = bufModified
    /\ UNCHANGED <<closeType, bufAutosave>>
    /\ UNCHANGED notCloseVars

\* func (v *View) ReOpen(): v.Buf.ReOpen() reads the file again.
ReOpenCall ==
    /\ \E answer \in Answers :
        \E c \in {CanClose(closeType, bufModified, bufAutosave, answer)} :
            /\ closeOp' = [fn |-> "ReOpen", answer |-> answer, asked |-> c.asked,
                           saved |-> c.saved, ret |-> c.ret, reloaded |-> c.ret]
            /\ IF c.ret THEN bufModified' = FALSE
                ELSE bufModified' = bufModified
    /\ UNCHANGED <<closeType, bufAutosave>>
    /\ UNCHANGED notCloseVars

\* The buffer is edited.
EditBuffer ==
    /\ bufModified' = TRUE
    /\ closeOp' = NoClose
    /\ UNCHANGED <<closeType, bufAutosave>>
    /\ UNCHANGED notCloseVars

\* SetLocalOption("autosave", value, v)
SetAutosave ==
    /\ \E b \in BOOLEAN : bufAutosave' = b
    /\ closeOp' = NoClose
    /\ UNCHANGED <<closeType, bufModified>>
    /\ UNCHANGED notCloseVars

\* The save-prompt gate of one view.
NextClose ==
    \/ CanCloseCall
    \/ ReOpenCall
    \/ EditBuffer
    \/ SetAutosave

\* The views of all tabs, in the order of the loops over tabs and tab.Views.
OpenViews == 1 .. MaxOpenViews

\* The goroutines at h.Sum(b.origHash[:0]) for buffer b.
Summing(b) == { i \in OpenViews : viewBuf[i] = b /\ hashers[i] = "sum" }

\* SetLocalOption("fastdirty", false, view) comes to its loop.
FastdirtyOff ==
    /\ hashPc \in {0, MaxOpenViews + 2}
    /\ hashPc' = 1
    /\ hashers' = [i \in OpenViews |-> "none"]
    /\ wg' = 0
    /\ UNCHANGED <<viewBuf, origHash>>
    /\ UNCHANGED notHashVars

\* One pass of the loop: `if v.Buf.origHash == empty { wg.Add(1); go ... }`.
\* The comparison reads the array while a goroutine may be writing it.
HashView ==
    /\ hashPc \in OpenViews
    /\ \E isEmpty \in (IF Summing(viewBuf[hashPc]) # {} THEN BOOLEAN
                        ELSE {origHash[viewBuf[hashPc]] = "empty"}) :
          IF isEmpty
          THEN /\ wg' = wg + 1
               /\ hashers' = [hashers EXCEPT ![hashPc] = "open"]
          ELSE UNCHANGED <<wg, hashers>>
    /\ hashPc' = hashPc + 1
    /\ UNCHANGED <<viewBuf, origHash>>
    /\ UNCHANGED notHashVars

\* The goroutine of view i: os.Open(b.AbsPath), which may fail.
HasherOpen ==
    /\ \E i \in OpenViews :
          /\ hashers[i] = "open"
          /\ \/ hashers' = [hashers EXCEPT ![i] = "copy"] /\ wg' = wg
             \/ hashers' = [hashers EXCEPT ![i] = "done"] /\ wg' = wg - 1
    /\ UNCHANGED <<viewBuf, origHash, hashPc>>
    /\ UNCHANGED notHashVars

\* io.Copy(h, file), which may fail; if it does not, the goroutine comes to
\* h.Sum(b.origHash[:0]).
HasherCopy ==
    /\ \E i \in OpenViews :
          /\ hashers[i] = "copy"
          /\ \/ hashers' = [hashers EXCEPT ![i] = "sum"] /\ wg' = wg
             \/ hashers' = [hashers EXCEPT ![i] = "done"] /\ wg' = wg - 1
    /\ UNCHANGED <<viewBuf, origHash, hashPc>>
    /\ UNCHANGED notHashVars

\* h.Sum(b.origHash[:0]) has written the sixteen bytes, and the deferred
\* wg.Done() runs.  Written together with another goroutine the bytes are
\* those of either or a mixture.
HasherSum ==
    /\ \E i \in OpenViews :
          /\ hashers[i] = "sum"
          /\ \E h \in (IF Summing(viewBuf[i]) # {i} THEN {"sum", "torn"} ELSE {"sum"}) :
                origHash' = [origHash EXCEPT ![viewBuf[i]] = h]
          /\ hashers' = [hashers EXCEPT ![i] = "done"]
          /\ wg' = wg - 1
    /\ UNCHANGED <<viewBuf, hashPc>>
    /\ UNCHANGED notHashVars

\* wg.Wait() returns, and SetLocalOption goes on to
\* buf.Settings[option] = nativeValue and returns.
WaitReturns ==
    /\ hashPc = MaxOpenViews + 1
    /\ wg = 0
    /\ hashPc' = MaxOpenViews + 2
    /\ UNCHANGED <<viewBuf, origHash, hashers, wg>>
    /\ UNCHANGED notHashVars

\* The fastdirty option is switched off.
NextHash ==
    \/ FastdirtyOff
    \/ HashView
    \/ HasherOpen
    \/ HasherCopy
    \/ HasherSum
    \/ WaitReturns

\* The presses and the no-button events of the mouse on one view.
NextRelease ==
    \/ MousePress
    \/ ButtonNone

NextClick ==
    \/ MousePress
    \/ MouseRelease

(***************************************************************************)
(* Initial states and specifications.                                      *)
(***************************************************************************)

\* The state of a view that no operation of the behaviour touches: an empty
\* buffer in a pane of one row, as NewBufferFromString("") would give.
ParkView ==
    /\ lines = << <<>> >>
    /\ softwrap = FALSE
    /\ scrollmargin = 0
    /\ tabsize = 1
    /\ Width = 1
    /\ Height = 1
    /\ lineNumOffset = 0
    /\ Topline = 0
    /\ leftCol = 0
    /\ cursorLoc = [X |-> 0, Y |-> 0]
    /\ lastOp = "NewView"

ParkLoop == InitLoop

\* A default view that is the current one, its buffer with the one cursor
\* every buffer has, nothing recorded.
ParkDispatch ==
    /\ cursors = << [id |-> PrimaryId, Num |-> 0, Loc |-> 0] >>
    /\ vCursor = PrimaryId
    /\ curCursor = 0
    /\ vType = vtDefault
    /\ curView = "v"
    /\ otherType = vtDefault
    /\ recordingMacro = FALSE
    /\ curMacro = <<>>
    /\ trace = <<>>
    /\ lastEvent = NoEvent
    /\ before = <<>>

ParkClick == InitClick

\* No view has been closed.
ParkPanes ==
    /\ closedViews = {}

\* No selection: the end of the selection is the start of the buffer.
ParkSel ==
    /\ curSelectionEnd = [X |-> 0, Y |-> 0]

\* A view of one row in the only tab, without a statusline.
ParkRows ==
    /\ rawHeight = 1
    /\ viewY = 0
    /\ numTabs = 1
    /\ statusline = FALSE
    /\ globalStatusline = FALSE
    /\ numSets = 0

\* The settings before InitGlobalSettings, with a file that parses.
ParkSettings ==
    /\ invalidSettings = FALSE
    /\ settingsFile = "valid"
    /\ fileValue = 0
    /\ optionValue = 0
    /\ settingsOp = "start"
    /\ wrote = FALSE
    /\ readFailed = FALSE

\* The default options, before any call.
ParkOptions ==
    /\ globalSettings = DefaultGlobalSettings
    /\ Settings = DefaultLocalSettings
    /\ optCall = NoCall
    /\ optErr = "nil"
    /\ optWrote = FALSE

\* No hook is running.
ParkHooks ==
    /\ hookKind = "none"
    /\ remaining = {}
    /\ hookErr = <<>>
    /\ termMessages = {}
    /\ completed = {}

\* No view is about to be closed.
ParkClose ==
    /\ closeType = vtDefault
    /\ bufModified = FALSE
    /\ bufAutosave = FALSE
    /\ closeOp = [fn |-> "none", answer |-> "none", asked |-> FALSE, saved |-> FALSE,
                  ret |-> FALSE, reloaded |-> FALSE]

\* SetLocalOption is not called for fastdirty.
ParkHash ==
    /\ viewBuf = <<1>>
    /\ origHash = <<"sum">>
    /\ hashPc = 0
    /\ hashers = <<"none">>
    /\ wg = 0

\* The cursor sets a buffer starts with: up to MaxCursors cursors at different
\* columns, numbered in order, the first one the primary cursor.
CursorSets ==
    UNION { { [i \in 1 .. n |-> [id |-> i, Num |-> i - 1, Loc |-> f[i]]] :
                f \in { g \in [1 .. n -> 0 .. MaxCol] :
                           \A i, j \in 1 .. n : i # j => g[i] # g[j] } } :
            n \in 1 .. MaxCursors }

\* A view of any type with any of these cursor sets, the active cursor the
\* primary one, the view the current one.
InitDispatch ==
    /\ cursors \in CursorSets
    /\ vCursor = PrimaryId
    /\ curCursor = 0
    /\ vType \in {vtDefault, vtHelp, vtRaw, vtTerm}
    /\ curView = "v"
    /\ otherType = vtDefault
    /\ recordingMacro = FALSE
    /\ curMacro = <<>>
    /\ trace = <<>>
    /\ lastEvent = NoEvent
    /\ before = <<>>

\* An editable, a help or a log view with any of these cursor sets, a macro
\* being recorded or not: a recording begins with one cursor, and cursors
\* are added while it goes on.
InitTyping ==
    /\ cursors \in CursorSets
    /\ vCursor = PrimaryId
    /\ curCursor = 0
    /\ vType \in {vtDefault, vtHelp, vtLog}
    /\ curView = "v"
    /\ otherType = vtDefault
    /\ recordingMacro \in BOOLEAN
    /\ curMacro = <<>>
    /\ trace = <<>>
    /\ lastEvent = NoEvent
    /\ before = <<>>

\* The texts a buffer of the viewport specification holds: up to MaxLines
\* lines, each empty or MaxLen characters long.
PlainLine == [i \in 1 .. MaxLen |-> "a"]
PlainBuffers ==
    UNION { [1 .. n -> {<<>>, PlainLine}] : n \in 1 .. MaxLines }

\* The scenario of a buffer of 100 lines in a pane of height 20 with a scroll margin of 3.
Scenario == [NumLines |-> 100, Height |-> 20, scrollmargin |-> 3]

\* A view over any of the buffers, of any size, scrolled anywhere, the cursor anywhere.
InitViewport ==
    /\ \/ /\ lines \in PlainBuffers
          /\ softwrap \in BOOLEAN
          /\ scrollmargin \in 0 .. MaxMargin
          /\ Height \in 1 .. MaxHeight
          /\ Width \in 2 .. MaxWidth
          /\ lineNumOffset \in 0 .. 1
       \/ /\ lines = [i \in 1 .. Scenario.NumLines |-> <<>>]
          /\ softwrap = FALSE
          /\ scrollmargin = Scenario.scrollmargin
          /\ Height = Scenario.Height
          /\ Width = MaxWidth
          /\ lineNumOffset = 0
    /\ tabsize = DefaultTabsize
    /\ Topline = 0
    /\ leftCol = 0
    /\ cursorLoc = [X |-> 0, Y |-> 0]
    /\ lastOp = "NewView"

\* The texts of the soft-wrap specification: one line of up to MaxLen
\* characters, tabs among them, and possibly a second line of at most one.
TextLines(n) == UNION { [1 .. k -> {"a", TAB}] : k \in 0 .. n }
WrapBuffers ==
    { <<l>> : l \in TextLines(MaxLen) } \cup (TextLines(MaxLen) \X TextLines(1))

\* The empty buffer, one empty line, and the buffers of MaxLines full lines,
\* the last line full or empty.
MouseBuffers ==
    {<<<<>>>>} \cup
    { [i \in 1 .. MaxLines |-> IF i = MaxLines THEN l ELSE PlainLine] :
        l \in {<<>>, PlainLine} }

\* A view that has just opened a buffer, without soft wrap and without a
\* scroll margin, with the ruler, in a pane of every size.
InitMouse ==
    /\ lines \in MouseBuffers
    /\ softwrap = FALSE
    /\ scrollmargin = 0
    /\ tabsize = DefaultTabsize
    /\ Height \in 1 .. MaxHeight
    /\ Width \in 2 .. MaxWidth
    /\ lineNumOffset = 1
    /\ Topline = 0
    /\ leftCol = 0
    /\ cursorLoc = [X |-> 0, Y |-> 0]
    /\ lastOp = "NewView"

\* A soft-wrapping view over any of these texts, of any size and tab size.
\* The walks read Width and lineNumOffset only as Width - lineNumOffset: the
\* line numbers are shown for the pane of width one alone, which leaves no
\* column for the text; the other widths are those of a pane without them.
InitWrap ==
    /\ lines \in WrapBuffers
    /\ softwrap = TRUE
    /\ scrollmargin = 0
    /\ tabsize \in 1 .. MaxTab
    /\ Height \in 1 .. MaxHeight
    /\ Width \in 1 .. MaxWidth
    /\ lineNumOffset \in 0 .. 1
    /\ lineNumOffset = 1 => Width = 1
    /\ Topline = 0
    /\ leftCol = 0
    /\ cursorLoc = [X |-> 0, Y |-> 0]
    /\ lastOp = "NewView"

\* The event scheduler alone.
InitSpecLoop ==
    /\ InitLoop
    /\ ParkView
    /\ ParkDispatch
    /\ ParkClick
    /\ ParkPanes
    /\ ParkSel
    /\ ParkRows
    /\ ParkSettings
    /\ ParkOptions
    /\ ParkHooks
    /\ ParkClose
    /\ ParkHash

SpecLoop == InitSpecLoop /\ [][NextLoop]_vars

\* The operations of one view.
InitSpecView ==
    /\ InitViewport
    /\ ParkLoop
    /\ ParkDispatch
    /\ ParkClick
    /\ ParkPanes
    /\ ParkSel
    /\ ParkRows
    /\ ParkSettings
    /\ ParkOptions
    /\ ParkHooks
    /\ ParkClose
    /\ ParkHash

SpecView == InitSpecView /\ [][NextView]_vars

\* Scrolling and mouse clicks in a soft-wrapping view.
InitSpecWrap ==
    /\ InitWrap
    /\ ParkLoop
    /\ ParkDispatch
    /\ ParkClick
    /\ ParkPanes
    /\ ParkSel
    /\ ParkRows
    /\ ParkSettings
    /\ ParkOptions
    /\ ParkHooks
    /\ ParkClose
    /\ ParkHash

SpecWrap == InitSpecWrap /\ [][NextWrap]_vars

\* The mouse and the keys on one view, with soft wrap switched on and off.
InitSpecMouse ==
    /\ InitMouse
    /\ ParkLoop
    /\ ParkDispatch
    /\ ParkClick
    /\ ParkPanes
    /\ ParkSel
    /\ ParkRows
    /\ ParkSettings
    /\ ParkOptions
    /\ ParkHooks
    /\ ParkClose
    /\ ParkHash

SpecMouse == InitSpecMouse /\ [][NextMouse]_vars

\* The mouse on a view of MaxLines lines in a pane of two rows and two
\* columns.
InitSpecRelease ==
    /\ InitMouse
    /\ NumLines(ThisView) = MaxLines
    /\ Height = 2
    /\ Width = 2
    /\ InitClick
    /\ ParkLoop
    /\ ParkDispatch
    /\ ParkPanes
    /\ ParkSel
    /\ ParkRows
    /\ ParkSettings
    /\ ParkOptions
    /\ ParkHooks
    /\ ParkClose
    /\ ParkHash

SpecRelease == InitSpecRelease /\ [][NextRelease]_vars

\* NewViewWidthHeight(buf, w, h): v.y = 0, v.Height = h, v.ToggleTabbar(),
\* and one row less with a statusline.
InitRows ==
    /\ rawHeight \in 3 .. MaxHeight + 2
    /\ numTabs \in 1 .. MaxTabs
    /\ statusline \in BOOLEAN
    /\ globalStatusline = statusline
    /\ viewY = ToggleTabbar(rawHeight, 0, numTabs).y
    /\ Height = ToggleTabbar(rawHeight, 0, numTabs).Height - (IF statusline THEN 1 ELSE 0)
    /\ numSets = 0
    /\ lines = << <<>> >>
    /\ softwrap = FALSE
    /\ scrollmargin = 0
    /\ tabsize = 1
    /\ Width = 1
    /\ lineNumOffset = 0
    /\ Topline = 0
    /\ leftCol = 0
    /\ cursorLoc = [X |-> 0, Y |-> 0]
    /\ lastOp = "NewView"

\* The rows of one pane.
InitSpecRows ==
    /\ InitRows
    /\ ParkLoop
    /\ ParkDispatch
    /\ ParkClick
    /\ ParkPanes
    /\ ParkSel
    /\ ParkSettings
    /\ ParkOptions
    /\ ParkHooks
    /\ ParkClose
    /\ ParkHash

SpecRows == InitSpecRows /\ [][NextRows]_vars

\* The editor starts with any settings file.
InitSettings ==
    /\ invalidSettings = FALSE
    /\ settingsFile \in FileKinds
    /\ fileValue \in (IF settingsFile = "valid" THEN 0 .. MaxValue ELSE {0})
    /\ optionValue = 0
    /\ settingsOp = "start"
    /\ wrote = FALSE
    /\ readFailed = FALSE

\* The settings file and the operations on it.
InitSpecSettings ==
    /\ InitSettings
    /\ ParkLoop
    /\ ParkView
    /\ ParkDispatch
    /\ ParkClick
    /\ ParkPanes
    /\ ParkSel
    /\ ParkRows
    /\ ParkOptions
    /\ ParkHooks
    /\ ParkClose
    /\ ParkHash

SpecSettings == InitSpecSettings /\ [][NextSettings]_vars

\* func InitGlobalSettings(): the defaults, and over them the values that
\* settings.json gives; a new buffer takes the values of globalSettings.
InitOptions ==
    /\ globalSettings \in [NumOptions -> {Num(n) : n \in {0 - 1, 0, 1, 3, DefaultTabsize}}]
    /\ \A o \in NumOptions :
          \/ globalSettings[o] = DefaultGlobalSettings[o]
          \/ globalSettings[o].n \in {0 - 1, 0, 1}
    /\ Settings = [o \in NumOptions \cup {LocalOption} |->
                      IF o = LocalOption THEN NoEntry ELSE globalSettings[o]]
    /\ optCall = NoCall
    /\ optErr = "nil"
    /\ optWrote = FALSE

\* The options and the calls that set them.
InitSpecOptions ==
    /\ InitOptions
    /\ ParkLoop
    /\ ParkView
    /\ ParkDispatch
    /\ ParkClick
    /\ ParkPanes
    /\ ParkSel
    /\ ParkRows
    /\ ParkSettings
    /\ ParkHooks
    /\ ParkClose
    /\ ParkHash

SpecOptions == InitSpecOptions /\ [][NextOptions]_vars

\* The hooks of the plugins.
InitSpecHooks ==
    /\ ParkHooks
    /\ ParkLoop
    /\ ParkView
    /\ ParkDispatch
    /\ ParkClick
    /\ ParkPanes
    /\ ParkSel
    /\ ParkRows
    /\ ParkSettings
    /\ ParkOptions
    /\ ParkClose
    /\ ParkHash

SpecHooks == InitSpecHooks /\ [][NextHooks]_vars

\* The events typed and pasted into the current view.
InitSpecTyping ==
    /\ InitTyping
    /\ ParkLoop
    /\ ParkView
    /\ ParkClick
    /\ ParkPanes
    /\ ParkSel
    /\ ParkRows
    /\ ParkSettings
    /\ ParkOptions
    /\ ParkHooks
    /\ ParkClose
    /\ ParkHash

SpecTyping == InitSpecTyping /\ [][NextTyping]_vars

\* A view of any type over an unmodified buffer.
InitClose ==
    /\ closeType \in {vtDefault, vtHelp, vtLog, vtScratch, vtRaw, vtTerm}
    /\ bufModified = FALSE
    /\ bufAutosave \in BOOLEAN
    /\ closeOp = NoClose

\* The save-prompt gate of one view.
InitSpecClose ==
    /\ InitClose
    /\ ParkLoop
    /\ ParkView
    /\ ParkDispatch
    /\ ParkClick
    /\ ParkPanes
    /\ ParkSel
    /\ ParkRows
    /\ ParkSettings
    /\ ParkOptions
    /\ ParkHooks
    /\ ParkHash

SpecClose == InitSpecClose /\ [][NextClose]_vars

\* The open views, each over a buffer of its own or several over one
\* buffer, each buffer with its hash computed or not.
InitHash ==
    /\ viewBuf \in [OpenViews -> OpenViews]
    /\ \A i \in OpenViews : viewBuf[i] <= i
    /\ origHash \in [OpenViews -> {"empty", "sum"}]
    /\ hashPc = 0
    /\ hashers = [i \in OpenViews |-> "none"]
    /\ wg = 0

\* The fastdirty option is switched off.
InitSpecHash ==
    /\ InitHash
    /\ ParkLoop
    /\ ParkView
    /\ ParkDispatch
    /\ ParkClick
    /\ ParkPanes
    /\ ParkSel
    /\ ParkRows
    /\ ParkSettings
    /\ ParkOptions
    /\ ParkHooks
    /\ ParkClose

SpecHash == InitSpecHash /\ [][NextHash]_vars

\* The events handed to one view.
InitSpecDispatch ==
    /\ InitDispatch
    /\ ParkLoop
    /\ ParkView
    /\ ParkClick
    /\ ParkPanes
    /\ ParkSel
    /\ ParkRows
    /\ ParkSettings
    /\ ParkOptions
    /\ ParkHooks
    /\ ParkClose
    /\ ParkHash

\* The clicks on one view.
InitSpecClick ==
    /\ InitClick
    /\ ParkLoop
    /\ ParkView
    /\ ParkDispatch
    /\ ParkPanes
    /\ ParkSel
    /\ ParkRows
    /\ ParkSettings
    /\ ParkOptions
    /\ ParkHooks
    /\ ParkClose
    /\ ParkHash

SpecClick == InitSpecClick /\ [][NextClick]_vars

SpecDispatch == InitSpecDispatch /\ [][NextDispatch]_vars

\* The main loop entered with the events channel full: EventsCap clicks on
\* the tab bar are queued and the input-polling task is blocked in its send.
FullChannel == [i \in 1 .. EventsCap |-> MkEvent(i, TabClick)]

InitSpecBurst ==
    /\ pc = "redraw"
    /\ events = FullChannel
    /\ produced = EventsCap
    /\ jobs = <<>> /\ autosave = FALSE /\ updateterm = FALSE
    /\ closeterm = NoSignal /\ event = Nil /\ searching = FALSE
    /\ numRedraw = 0 /\ posted = 0 /\ handled = <<>> /\ batch = 0
    /\ ticks = 0 /\ broke = FALSE /\ curTab = 1
    /\ resized = [t \in Tabs |-> 0] /\ called = <<>>
    /\ autosaveOption = TRUE /\ hasPath = TRUE /\ saved = <<>>
    /\ closedTerm = <<>> /\ settingsAccess = {} /\ race = FALSE
    /\ out = <<>> /\ exitStatus = 0
    /\ ParkView
    /\ ParkDispatch
    /\ ParkClick
    /\ ParkPanes
    /\ ParkSel
    /\ ParkRows
    /\ ParkSettings
    /\ ParkOptions
    /\ ParkHooks
    /\ ParkClose
    /\ ParkHash

\* The main loop entered with autosave on or off in settings.json, the buffer
\* of the current view opened from a file or empty and without a path.
InitSpecTasks ==
    /\ autosaveOption \in BOOLEAN
    /\ hasPath \in BOOLEAN
    /\ pc = "redraw" /\ events = <<>> /\ produced = 0
    /\ jobs = <<>> /\ autosave = FALSE /\ updateterm = FALSE
    /\ closeterm = NoSignal /\ event = Nil /\ searching = FALSE
    /\ numRedraw = 0 /\ posted = 0 /\ handled = <<>> /\ batch = 0
    /\ ticks = 0 /\ broke = FALSE /\ curTab = 1
    /\ resized = [t \in Tabs |-> 0] /\ called = <<>> /\ saved = <<>>
    /\ closedTerm = <<>> /\ settingsAccess = {} /\ race = FALSE
    /\ out = <<>> /\ exitStatus = 0
    /\ ParkView
    /\ ParkDispatch
    /\ ParkClick
    /\ ParkPanes
    /\ ParkSel
    /\ ParkRows
    /\ ParkSettings
    /\ ParkOptions
    /\ ParkHooks
    /\ ParkClose
    /\ ParkHash

SpecTasks == InitSpecTasks /\ [][NextTasks]_vars

\* The main loop as main enters it, the deferred recover in place.
InitSpecPanic ==
    /\ InitLoop
    /\ ParkView
    /\ ParkDispatch
    /\ ParkClick
    /\ ParkPanes
    /\ ParkSel
    /\ ParkRows
    /\ ParkSettings
    /\ ParkOptions
    /\ ParkHooks
    /\ ParkClose
    /\ ParkHash

SpecPanic == InitSpecPanic /\ [][NextPanic]_vars

\* The main loop as main enters it, every view open.
InitSpecJobs ==
    /\ InitLoop
    /\ ParkView
    /\ ParkDispatch
    /\ ParkClick
    /\ ParkPanes
    /\ ParkSel
    /\ ParkRows
    /\ ParkSettings
    /\ ParkOptions
    /\ ParkHooks
    /\ ParkClose
    /\ ParkHash

SpecJobs == InitSpecJobs /\ [][NextJobs]_vars

\* The main loop always goes on when it can, and a select that finds several
\* channels ready time and again takes each of them some time: Go chooses
\* among the ready cases of a select by a uniform pseudo-random selection.
FairLoop ==
    /\ WF_vars(RedrawAll)
    /\ WF_vars(Dispatch)
    /\ WF_vars(Poll)
    /\ SF_vars(SelectEvent)
    /\ SF_vars(SelectUpdateterm)

SpecBurst == InitSpecBurst /\ [][NextBurst]_vars /\ FairLoop

\* The bindings whose actions return false for some of the cursors.
InitSpecRelocate ==
    /\ InitDispatch
    /\ ParkLoop
    /\ ParkView
    /\ ParkClick
    /\ ParkPanes
    /\ ParkSel
    /\ ParkRows
    /\ ParkSettings
    /\ ParkOptions
    /\ ParkHooks
    /\ ParkClose
    /\ ParkHash

SpecRelocate == InitSpecRelocate /\ [][NextRelocate]_vars

(***************************************************************************)
(* Claims about the event scheduler.                                       *)
(***************************************************************************)

\* The loop goes back to RedrawAll from inside a drain batch.
LeavesBatch == pc \in {"dispatch", "poll"} /\ pc' = "redraw"

Pending == (IF pc = "dispatch" THEN <<event>> ELSE <<>>) \o events

\* Every event sent so far has been dispatched once or is pending, and both
\* the dispatched and the pending ones are in the order they were sent in.
InOrderOnce ==
    /\ \A k \in DOMAIN handled : handled[k][1] = k
    /\ \A k \in DOMAIN Pending : Pending[k].id = Len(handled) + k
    /\ Len(handled) + Len(Pending) = produced
    /\ Len(events) <= EventsCap

C15_ResizeAppliedBeforeNext ==
    (pc = "poll" /\ event.kind = "Resize") =>
        \A t \in Tabs : resized[t] = event.id

\* C15 witness: the loop has received the second event of a batch whose first
\* event was a Resize, and every tab has been resized for that first event.
C15_Witness ==
    /\ pc = "dispatch" /\ batch = 1 /\ event.id = 2
    /\ handled[Len(handled)][1] = 1
    /\ \A t \in Tabs : resized[t] = 1

\* C16: the job callbacks called so far are those of the completions posted
\* first, in the order they were posted in, each called with the output and
\* the args of its own job; the completions in the channel are the ones
\* posted last, in order, and while no callback has panicked every
\* completion posted was called or is in the channel; and the step that
\* calls a callback is a step of the main loop at its select that
\* dispatches no event and leads to the next iteration, one callback a step.
C16_CallbackPerIteration ==
    /\ [](/\ \A k \in DOMAIN called :
                /\ called[k].function = JobOf(k).function
                /\ called[k].output = JobOf(k).output
                /\ called[k].args = JobOf(k).args
          /\ \A k \in DOMAIN jobs : jobs[k] = JobOf(posted - Len(jobs) + k)
          /\ pc \notin {"panic", "exit"} => Len(called) + Len(jobs) = posted)
    /\ [][called' # called =>
             /\ pc = "select" /\ pc' = "redraw"
             /\ Len(called') = Len(called) + 1
             /\ handled' = handled /\ events' = events
             /\ event = Nil /\ event' = Nil]_vars

\* C16 witness: two completions were posted while two events were queued;
\* both callbacks have been called, in two iterations, and no event has been
\* dispatched yet.
C16_Witness ==
    /\ Len(called) = 2 /\ numRedraw = 2 /\ pc = "redraw"
    /\ Len(events) = 2 /\ handled = <<>>

\* C17: every Save an autosave tick has led to was made with the autosave
\* option on and the Path of the buffer non-empty at the time the main loop
\* handled the tick.
C17_SavesOnlyWhenEnabled ==
    \A k \in DOMAIN saved : saved[k].option /\ saved[k].path

\* The part of C17 the code satisfies: a tick leads to a Save only if the
\* Path is non-empty when the main loop handles it; the option was on when
\* the timer task read it, before its send.
C17_SavesOnlyWithPath ==
    \A k \in DOMAIN saved : saved[k].path

\* C18: every CloseTerminal the main loop has called for a close signal was
\* called on the view whose terminal sent the signal.
C18_ClosesTheSendingPane ==
    \A k \in DOMAIN closedTerm : closedTerm[k].closed = closedTerm[k].owner

\* C21: the main loop calls the callback of a job completion only if the
\* view the job was started for has not been closed.
C21_NoCallbackForClosedView ==
    [][called' # called => ViewOf(called'[Len(called')]) \notin closedViews]_vars

\* The place of a step in what the deferred function has done (0: not done).
StepAt(name) ==
    IF \E k \in DOMAIN out : out[k] = name
    THEN CHOOSE k \in DOMAIN out : out[k] = name ELSE 0

\* C19: after a panic of the main loop the deferred function does nothing
\* but exit; when the process has exited, screen.Fini was called before the
\* error and before the stack trace were printed, both were printed, and
\* the status is 1; the process exits in no other way.
C19_FiniBeforeReportThenExit ==
    /\ [](pc = "exit" =>
             /\ StepAt("screen.Fini") > 0
             /\ StepAt("fmt.Println") > StepAt("screen.Fini")
             /\ StepAt("ErrorStack") > StepAt("screen.Fini")
             /\ exitStatus = 1)
    /\ [](pc # "exit" => out = <<>> /\ exitStatus = 0)
    /\ [][pc = "panic" => pc' \in {"panic", "exit"}]_vars

\* C19 witness: the callback of a job has panicked after an event had been
\* dispatched, and the process has exited.
C19_Witness ==
    /\ pc = "exit" /\ exitStatus = 1
    /\ handled # <<>>
    /\ posted = 1 /\ jobs = <<>> /\ called = <<>>

\* C20: the tasks beside the main loop only send on channels: none of them
\* has accessed the settings map the main loop writes, and no two goroutines
\* have accessed it with no channel operation between the accesses.
C20_TasksOnlySend ==
    /\ "timer read" \notin settingsAccess
    /\ ~race

\* The data race of C20 alone: the timer task has read globalSettings and the
\* main loop has written it with no channel operation in between.
C20_NoDataRace == ~race

(***************************************************************************)
(* Claims about the viewport coordinate engine.                            *)
(***************************************************************************)

\* A second Relocate call, made now, would leave Topline and leftCol as they are.
SecondCallChangesNothing ==
    LET w == Relocate(ThisView).v IN w.Topline = Topline /\ w.leftCol = leftCol

\* C4: Relocate is idempotent: right after a Relocate call, with nothing
\* changed in between, a second call leaves Topline and leftCol as the first
\* call left them, with soft wrap on or off.
C4_RelocateIdempotent ==
    lastOp = "Relocate" => SecondCallChangesNothing

\* The part of C4 the code satisfies: idempotence without soft wrap.
C4_NoWrapIdempotent ==
    (lastOp = "Relocate" /\ ~softwrap) => SecondCallChangesNothing

\* C22: a call of Relocate returns true if and only if it has changed
\* Topline or leftCol.
C22_TrueIffChanged ==
    [][lastOp' = "Relocate" =>
          (Relocate(ThisView).ret <=> (Topline' # Topline \/ leftCol' # leftCol))]_vars

\* The part of C22 the code satisfies: a call that returns false has left
\* Topline and leftCol as they were.
C22_FalseMeansUnchanged ==
    [][(lastOp' = "Relocate" /\ ~Relocate(ThisView).ret) =>
          (Topline' = Topline /\ leftCol' = leftCol)]_vars

\* The cursor line is at least scrollmargin lines away from the first and
\* from the last line of the buffer.
AwayFromEnds ==
    /\ cursorLoc.Y >= scrollmargin
    /\ cursorLoc.Y <= NumLines(ThisView) - 1 - scrollmargin

\* The cursor line keeps the scroll margin from both edges of the window.
KeepsMargin ==
    /\ Topline + scrollmargin <= cursorLoc.Y
    /\ cursorLoc.Y <= Topline + Height - 1 - scrollmargin

\* C23 as stated: without soft wrap, after Relocate the cursor line keeps
\* the scroll margin from both window edges whenever it is at least
\* scrollmargin lines away from both ends of the buffer, for every Height
\* and scrollmargin.
C23_KeepsMarginAlways ==
    (lastOp = "Relocate" /\ ~softwrap /\ AwayFromEnds) => KeepsMargin

\* C23 as the code has it: the same, for the heights that have room for both
\* margins and a line between them, Height >= 2 * scrollmargin + 1.
C23_KeepsMarginIfRoom ==
    (lastOp = "Relocate" /\ ~softwrap /\ AwayFromEnds
        /\ Height >= 2 * scrollmargin + 1) => KeepsMargin

\* C23 witness: in the buffer of 100 lines, the pane of height 20 and the
\* margin of 3, Relocate has run with the cursor on line 50 and the window
\* scrolled so that line 50 is the last line above the bottom margin.
C23_Witness ==
    /\ lastOp = "Relocate" /\ ~softwrap /\ AwayFromEnds
    /\ NumLines(ThisView) = 100 /\ Height = 20 /\ scrollmargin = 3
    /\ cursorLoc.Y = 50 /\ Topline = 34

\* C24: with a line of the buffer at the top of the window, Bottomline
\* returns the index of an existing line of the buffer, with and without
\* soft wrap, and without soft wrap that of the last line shown in the
\* window: Topline + Height - 1, or the last line of the buffer if the
\* buffer ends above the last row.
C24_BottomlineIsLastVisibleLine ==
    Topline < NumLines(ThisView) =>
        /\ Bottomline(ThisView) < NumLines(ThisView)
        /\ ~softwrap =>
              Bottomline(ThisView) =
                  IF Topline + Height - 1 < NumLines(ThisView)
                  THEN Topline + Height - 1 ELSE NumLines(ThisView) - 1

\* What the code has instead: Bottomline returns the index after that of the
\* last line it gives a row to, be it a line of the buffer or not.
C24_BottomlineIsOnePast ==
    /\ Bottomline(ThisView) > Topline
    /\ Bottomline(ThisView) <= Topline + Height
    /\ ~softwrap => Bottomline(ThisView) = Topline + Height

\* C25: while soft wrap is enabled leftCol is 0 whenever the view is
\* displayed and in every state in which the view begins to handle an
\* event, the resolution of a mouse position included.
C25_NoLeftColUnderSoftwrap ==
    /\ []((softwrap /\ lastOp = "DisplayView") => leftCol = 0)
    /\ [][(softwrap /\ lastOp' \in {"HandleEvent", "Release", "GetMouseClickLocation"})
             => leftCol = 0]_vars

\* The part of C25 the code satisfies: under soft wrap the view is displayed
\* with leftCol = 0.
C25_DisplayedWithoutLeftCol ==
    (softwrap /\ lastOp = "DisplayView") => leftCol = 0

\* The coordinates of a click, relative to the pane: the cells of the pane,
\* one cell beyond it on every side.
ClickAt == (-1 .. MaxWidth) \X (-1 .. MaxHeight)

\* A position of the buffer of v that exists.
InBuffer(v, X, Y) ==
    /\ 0 <= Y
    /\ Y < NumLines(v)
    /\ 0 <= X
    /\ X <= Count(Line(v, Y))

\* C26: GetMouseClickLocation and MoveToMouseClick yield a position of the
\* buffer that exists, 0 <= line < NumLines and 0 <= column <= length of
\* the line, for every click, scroll offset, pane size and wrap mode.
C26_ClickYieldsExistingPosition ==
    \A c \in ClickAt :
        LET g == GetMouseClickLocation(ThisView, c[1], c[2])
            m == MoveToMouseClick(ThisView, c[1], Topline + c[2])
        IN  /\ InBuffer(ThisView, g.X, g.Y)
            /\ InBuffer(ThisView, m.Cursor.X, m.Cursor.Y)

\* A release beyond the end of the last line under soft wrap has put the
\* cursor at the end of that line.
C26_Witness ==
    /\ lastOp = "Release"
    /\ softwrap
    /\ NumLines(ThisView) = MaxLines
    /\ cursorLoc.Y = NumLines(ThisView) - 1
    /\ cursorLoc.X = Count(Line(ThisView, cursorLoc.Y))
    /\ cursorLoc.X > Width

\* C27: a click changes Topline only when its row is below the last row of
\* the pane, and then by one ScrollDown(1), the click being resolved on the
\* last visible row of the scrolled view; every other click leaves Topline
\* unchanged, and no click changes leftCol or anything else but the cursor.
C27_ClickScrollsOnlyBelow ==
    \A c \in ClickAt :
        LET v == ThisView
            g == GetMouseClickLocation(v, c[1], c[2])
            m == MoveToMouseClick(v, c[1], Topline + c[2])
            s == ScrollDown(v, 1)
            last == s.Topline + s.Height - 1
            onLast == MoveToMouseClick(s, c[1], last).Cursor
            gLast == GetMouseClickLocation(s, c[1], s.Height - 1)
        IN  IF c[2] > Height - 1
            THEN /\ g.v = s
                 /\ m = [s EXCEPT !.Cursor = onLast]
                 /\ g.X = gLast.X /\ g.Y = gLast.Y
                 /\ ~softwrap => onLast.Y = IF last >= NumLines(v) THEN NumLines(v) - 1 ELSE last
            ELSE /\ g.v = v
                 /\ m = [v EXCEPT !.Cursor = m.Cursor]

\* A release below the pane has scrolled by one line and put the cursor on
\* the last visible line.
C27_Witness ==
    /\ lastOp = "Release"
    /\ ~softwrap
    /\ NumLines(ThisView) = MaxLines
    /\ Height = 2
    /\ Topline = 1
    /\ cursorLoc.Y = 2

\* C28: a no-button event (a step on which the clock of the clicks stands
\* still) received while mouseReleased is false moves the cursor to the
\* position of the event and sets the end of the selection there if and
\* only if neither doubleClick nor tripleClick is set, and mouseReleased
\* becomes true; received while mouseReleased is true it moves no cursor
\* and changes no selection.
C28_ReleaseMovesUnlessMultiClick ==
    [][now' = now =>
        IF ~mouseReleased
        THEN /\ mouseReleased'
             /\ IF ~doubleClick /\ ~tripleClick
                THEN /\ \E c \in Cells :
                          /\ cursorLoc' = Release(ThisView, c[1], c[2]).Cursor
                          /\ Topline' = Release(ThisView, c[1], c[2]).Topline
                     /\ curSelectionEnd' = cursorLoc'
                ELSE /\ cursorLoc' = cursorLoc
                     /\ curSelectionEnd' = curSelectionEnd
        ELSE /\ mouseReleased'
             /\ cursorLoc' = cursorLoc
             /\ curSelectionEnd' = curSelectionEnd]_vars

\* The release of a double click after the release of a single click that
\* moved the cursor: the cursor has stayed where the single click put it.
C28_Witness ==
    /\ lastOp = "ButtonNone"
    /\ mouseReleased
    /\ doubleClick
    /\ cursorLoc # [X |-> 0, Y |-> 0]
    /\ curSelectionEnd = cursorLoc

\* The rows reserved in the pane: the row of the tab bar and the row of the
\* statusline.
ReservedRows ==
    (IF viewY = 1 THEN 1 ELSE 0) + (IF statusline THEN 1 ELSE 0)

\* C29: after any sequence of ToggleTabbar calls under changing tab counts
\* and of settings of the statusline option, to the value it has as well,
\* Height is the raw height minus one if the row of the tab bar is reserved
\* and minus one if the statusline is enabled.
C29_HeightIsRawMinusReserved ==
    Height = rawHeight - ReservedRows

\* The part of C29 the code satisfies: a step that sets no option keeps
\* Height + ReservedRows, and so does a setting that changes the option.
C29_ChangesKeepHeight ==
    [][(numSets' = numSets \/ statusline' # statusline)
         => Height' + ReservedRows' = Height + ReservedRows]_vars

\* C30: once reading or parsing settings.json has failed no later
\* operation writes the file, and a file that cannot be read or does not
\* parse is never overwritten.
C30_NoWriteAfterFailure ==
    [][wrote' => /\ ~readFailed'
                 /\ ~ParseFails(settingsFile)
                 /\ settingsFile # "unreadable"]_vars

\* The part of C30 the code satisfies: after InitGlobalSettings no
\* operation writes the file while invalidSettings is set, and a file
\* that cannot be read is never written.
C30_NoWriteWhileFlagSet ==
    [][wrote' => /\ settingsOp # "start" => ~invalidSettings
                 /\ settingsFile # "unreadable"]_vars

\* The call c, made in the current state, names no option of the map the
\* callee looks in, or gives a value that does not parse as the kind of the
\* option, or a value the validator of the option rejects.
BadCall(c) ==
    LET known == IF c.fn = "SetLocalOption" THEN HasOption(Settings, c.option)
                 ELSE HasOption(globalSettings, c.option) \/ HasOption(Settings, c.option)
        current == IF c.fn # "SetLocalOption" /\ HasOption(globalSettings, c.option)
                   THEN globalSettings[c.option] ELSE Settings[c.option]
    IN  \/ ~known
        \/ NativeValue(current, c.value).err # "nil"
        \/ optionIsValid(c.option, NativeValue(current, c.value).v) # "nil"

\* A step that is a call of SetOption, SetLocalOption or
\* SetOptionAndSettings with an unknown option or a bad value.
BadCallStep ==
    /\ optCall'.fn \in {"SetOption", "SetLocalOption", "SetOptionAndSettings"}
    /\ BadCall(optCall')

\* C31: SetOption and SetLocalOption called with an unknown option, an
\* unparsable value or a value the validator rejects return an error and
\* leave globalSettings and the Settings of every buffer unchanged, and
\* SetOptionAndSettings then reports the error and writes nothing.
C31_BadCallIsAnErrorAndNoOp ==
    [][BadCallStep => /\ optErr' # "nil"
                      /\ globalSettings' = globalSettings
                      /\ Settings' = Settings
                      /\ ~optWrote']_vars

\* The part of C31 the code satisfies: such a call changes neither map, and
\* it returns an error unless SetOption hands an option that only the
\* buffer has to SetLocalOption.
C31_BadCallChangesNothing ==
    [][BadCallStep => /\ globalSettings' = globalSettings
                      /\ Settings' = Settings
                      /\ ( \/ optCall'.fn = "SetLocalOption"
                           \/ HasOption(globalSettings, optCall'.option)
                           \/ ~HasOption(Settings, optCall'.option) )
                         => (optErr' # "nil" /\ ~optWrote')]_vars

\* The values of the numeric options of a map are those their validators
\* accept: tabsize >= 1, scrollmargin >= 0 (scrollspeed and colorcolumn have
\* the validator of scrollmargin).
InRange(settings) ==
    \A o \in NumOptions : optionIsValid(o, settings[o]) = "nil"

\* C40: in every reachable state tabsize >= 1 and scrollmargin, scrollspeed
\* and colorcolumn are >= 0, in globalSettings and in the Settings of every
\* buffer, however the values were set or loaded.
C40_OptionsInRange ==
    /\ InRange(globalSettings)
    /\ InRange(Settings)

\* The part of C40 the code satisfies: a value that SetOption, SetLocalOption
\* or SetOptionAndSettings stores is one the validator accepts.
C40_SetValuesInRange ==
    [][optCall'.fn \in {"SetOption", "SetLocalOption", "SetOptionAndSettings"} =>
        \A o \in NumOptions :
            /\ globalSettings'[o] # globalSettings[o]
                  => optionIsValid(o, globalSettings'[o]) = "nil"
            /\ Settings'[o] # Settings[o]
                  => optionIsValid(o, Settings'[o]) = "nil"]_vars

\* C32: for the onViewOpen and onRune hooks a plugin that does not define
\* the hook produces no message and any other error of a hook is shown by
\* TermMessage; in both cases the remaining plugins are still called, and
\* the view creation or rune insertion completes after every plugin has
\* been called once.
C32_HookErrorsReportedAllCalled ==
    /\ \A i \in DOMAIN hookErr :
          /\ hookErr[i].err = ErrMissing => hookErr[i].pl \notin termMessages
          /\ hookErr[i].err = ErrFailed => hookErr[i].pl \in termMessages
          /\ hookErr[i].err = <<>> => hookErr[i].pl \notin termMessages
          /\ \A j \in DOMAIN hookErr : hookErr[j].pl = hookErr[i].pl => j = i
    /\ completed # {} => { hookErr[i].pl : i \in DOMAIN hookErr } = Plugins
    /\ (hookKind # "none" /\ remaining = {})
          => { hookErr[i].pl : i \in DOMAIN hookErr } = Plugins

\* A view creation has completed although the first plugin called does not
\* define onViewOpen and the second one failed.
C32_Witness ==
    /\ completed = {"onViewOpen"}
    /\ Len(hookErr) = MaxPlugins
    /\ hookErr[1].err = ErrMissing
    /\ hookErr[2].err = ErrFailed
    /\ termMessages = {hookErr[2].pl}

\* C34: after any sequence of ScrollUp(n), ScrollDown(n) with n >= 1 and
\* Relocate calls from Topline = 0 on a buffer with at least one line,
\* Topline is a valid line index: 0 <= Topline <= NumLines - 1.
C34_ToplineIsLineIndex ==
    /\ 0 <= Topline
    /\ Topline <= Len(lines) - 1

\* The part of C34 the code satisfies: Topline stays within 0 .. NumLines.
C34_ToplineAtMostNumLines ==
    /\ 0 <= Topline
    /\ Topline <= Len(lines)

C39_OneHasherPerBuffer ==
    /\ \A b \in OpenViews : Cardinality(Summing(b)) <= 1
    /\ hashPc = MaxOpenViews + 2 =>
           \A i \in OpenViews : hashers[i] \in {"none", "done"}

\* The part of C39 the code satisfies: SetLocalOption returns only after
\* every goroutine it started has finished, and buffers shown by one view
\* each are written by one goroutine at most.
C39_ReturnsAfterHashers ==
    /\ hashPc = MaxOpenViews + 2 =>
           \A i \in OpenViews : hashers[i] \in {"none", "done"}
    /\ wg = Cardinality({ i \in OpenViews : hashers[i] \in {"open", "copy", "sum"} })
    /\ (\A i, j \in OpenViews : i # j => viewBuf[i] # viewBuf[j])
           => /\ \A b \in OpenViews : Cardinality(Summing(b)) <= 1
              /\ \A b \in OpenViews : origHash[b] # "torn"

\* The buffer lines the line loop of GetSoftWrapLocation walks.
WalkedLines ==
    { n \in Topline .. Bottomline(ThisView) - 1 : n < NumLines(ThisView) }

\* C5: under soft wrap the cell at which the wrap walk places column c of a
\* line is mapped back by GetSoftWrapLocation to column c of that line, for
\* every column 0..L of every line the walk covers.
C5_WrapRoundTrip ==
    softwrap =>
        \A n \in WalkedLines : \A c \in 0 .. Count(Line(ThisView, n)) :
            LET p == PlaceOf(ThisView, n, c)
            IN  GetSoftWrapLocation(ThisView, p.x, p.y) = [X |-> c, Y |-> n]

\* C5 witness: a click was resolved to a column on a continuation row of a
\* wrapped line that holds a tab wider than one column.
C5_Witness ==
    /\ softwrap /\ lastOp = "MoveToMouseClick" /\ tabsize > 1
    /\ cursorLoc.Y \in WalkedLines
    /\ cursorLoc.X > 0
    /\ TAB \in { Line(ThisView, cursorLoc.Y)[i] : i \in 1 .. cursorLoc.X }
    /\ PlaceOf(ThisView, cursorLoc.Y, cursorLoc.X).y > RowOfLine(ThisView, cursorLoc.Y)

\* C7: without soft wrap, with the cursor line cy within the last scrollmargin
\* lines of the buffer and cy >= Height, Relocate sets Topline to
\* NumLines - Height; with 100 lines, height 20, margin 3 and the cursor on
\* line 99 that is 80.
C7_ToplineAtEnd ==
    (lastOp = "Relocate" /\ ~softwrap) =>
        /\ (cursorLoc.Y >= NumLines(ThisView) - scrollmargin /\ cursorLoc.Y >= Height)
              => Topline = NumLines(ThisView) - Height
        /\ (NumLines(ThisView) = 100 /\ Height = 20 /\ scrollmargin = 3 /\ cursorLoc.Y = 99)
              => Topline = 80

\* C7 witness: the scenario, after Relocate has run with the cursor on line 99.
C7_Witness ==
    /\ lastOp = "Relocate" /\ ~softwrap
    /\ NumLines(ThisView) = 100 /\ Height = 20 /\ scrollmargin = 3
    /\ cursorLoc.Y = 99 /\ Topline = 80

\* The active cursor lies inside the visible window.
CursorVisible ==
    /\ Topline <= cursorLoc.Y
    /\ cursorLoc.Y < Bottomline(ThisView)
    /\ ~softwrap =>
          /\ leftCol <= GetVisualX(ThisView)
          /\ GetVisualX(ThisView) < leftCol + Width - lineNumOffset

\* C8: after HandleEvent has run its relocation passes the active cursor lies
\* inside the visible window, for every pane height, width and scroll margin.
C8_CursorVisibleAfterHandleEvent ==
    lastOp = "HandleEvent" => CursorVisible

(***************************************************************************)
(* Claims about the command executor.                                      *)
(***************************************************************************)

\* HandleEvent has just dispatched a binding over the cursors of the buffer.
Dispatched == lastEvent.bound /\ vType \notin {vtTerm, vtRaw}

\* The action invocations of the call, in order: name, active cursor, curCursor.
IsAction(t) == t.op = "Action"
Called ==
    LET inv == SelectSeq(trace, IsAction)
    IN  [i \in DOMAIN inv |-> <<inv[i].name, inv[i].cursor, inv[i].num>>]

\* Every action of the list once for every cursor of cs: cursor by cursor in
\* the order of cs, the actions of one cursor in the order of the list.
OncePerCursor(cs, actions) ==
    [p \in 1 .. Len(cs) * Len(actions) |->
        LET c == cs[((p - 1) \div Len(actions)) + 1]
        IN  <<actions[((p - 1) % Len(actions)) + 1], c.id, c.Num>>]

\* The name is one that ExecuteActions does not call in a read-only view.
GatedName(name) ==
    \E j \in DOMAIN readonlyBindingsList : Contains(name, readonlyBindingsList[j])
NotGated(name) == ~GatedName(name)

\* The cursors the dispatch gets to: all of them, or the first one only if an
\* action of the list clears the cursors of v.
Surviving ==
    IF curView = "v" /\ \E k \in DOMAIN lastEvent.actions :
                           /\ lastEvent.actions[k] = RemoveAllMultiCursors
                           /\ ~(CurViewType.Readonly /\ GatedName(RemoveAllMultiCursors))
    THEN SubSeq(before, 1, 1) ELSE before

C3_ReadonlyViewSkipsMutating ==
    (Dispatched /\ vType.Readonly) =>
        /\ \A i \in DOMAIN Called : NotGated(Called[i][1])
        /\ Called = OncePerCursor(Surviving, SelectSeq(lastEvent.actions, NotGated))

\* C9: whenever HandleEvent returns, v.Cursor is the primary cursor of the
\* buffer and Buf.curCursor is its number.
C9_ActiveCursorIsPrimary ==
    lastEvent # NoEvent =>
        /\ vCursor = PrimaryId
        /\ cursors[1].id = PrimaryId
        /\ curCursor = cursors[1].Num

\* C9 witness: a call that made the second cursor the active one on its way
\* has returned.
C9_Witness ==
    /\ lastEvent # NoEvent
    /\ \E i \in DOMAIN trace : trace[i].op = "SetCursor" /\ trace[i].cursor = 2
    /\ vCursor = PrimaryId

\* A step made for one cursor: an action, a rune insertion, a paste.
PerCursorStep(t) == t.op \in {"Action", "Insert", "paste"}

\* C10: when HandleEvent has applied an event across the cursors, it has
\* called MergeCursors after the last per-cursor step.
C10_MergedAfterLastStep ==
    (\E i \in DOMAIN trace : PerCursorStep(trace[i])) =>
        \E m \in DOMAIN trace :
            /\ trace[m].op = "MergeCursors"
            /\ \A i \in DOMAIN trace : PerCursorStep(trace[i]) => i < m

\* The part of C10 the code satisfies: a binding dispatch ends with MergeCursors.
C10_MergedAfterBinding ==
    Dispatched =>
        \E m \in DOMAIN trace :
            /\ trace[m].op = "MergeCursors"
            /\ \A i \in DOMAIN trace : PerCursorStep(trace[i]) => i < m

\* An invocation of the call that has removed the cursors after the first
\* from the buffer of v, and a SetCursor of the call that found its cursor
\* removed.
Removes(t) == IsAction(t) /\ t.name = RemoveAllMultiCursors /\ t.view = "v"
FoundRemoved(t) == t.op = "SetCursor" /\ t.cursor = 0

\* C12: in a binding dispatch, once an invocation has removed cursors from
\* the cursor set, no action is invoked with a removed cursor as the active
\* one, and once SetCursor has found a cursor removed the dispatch invokes
\* no further action.
C12_NoActionOnRemovedCursor ==
    Dispatched =>
        \A j \in DOMAIN trace :
            IsAction(trace[j]) =>
                \A i \in 1 .. j - 1 :
                    /\ Removes(trace[i]) => trace[j].cursor = before[1].id
                    /\ ~FoundRemoved(trace[i])

\* C12 witness: a binding dispatched over two cursors whose first invocation
\* has removed the second cursor; the step of the second cursor was aborted.
C12_Witness ==
    /\ Dispatched /\ Len(before) = 2
    /\ \E i \in DOMAIN trace : Removes(trace[i])
    /\ \E i \in DOMAIN trace : FoundRemoved(trace[i])
    /\ \A i \in DOMAIN trace : IsAction(trace[i]) => trace[i].cursor = before[1].id
    /\ Len(cursors) = 1

\* The macro state the invocations of the call leave, from the one the call
\* began with: ToggleMacro starts a recording with an empty macro or ends
\* it, an invocation made while recordingMacro is true is appended unless
\* it is one of ToggleMacro and PlayMacro.
RECURSIVE MacroAfter(_, _, _)
MacroAfter(inv, i, m) ==
    IF i > Len(inv) THEN m
    ELSE LET name == inv[i].name
         IN  IF name = ToggleMacro
             THEN MacroAfter(inv, i + 1,
                             [rec |-> ~m.rec,
                              macro |-> IF m.rec THEN m.macro ELSE <<>>])
             ELSE IF name # PlayMacro /\ m.rec
             THEN MacroAfter(inv, i + 1, [m EXCEPT !.macro = Append(@, name)])
             ELSE MacroAfter(inv, i + 1, m)

\* The macro state: recordingMacro and curMacro.
MacroNow == [rec |-> recordingMacro, macro |-> curMacro]

\* C13: a call of HandleEvent that dispatches a binding leaves the macro
\* state that its invocations make of the one it began with: the actions
\* ExecuteActions has invoked while recordingMacro was true are appended
\* to curMacro, in invocation order, except ToggleMacro and PlayMacro; an
\* action gated in a read-only view is not appended, and nothing is
\* appended while recordingMacro is false.
C13_MacroRecordsInvoked ==
    [][(lastEvent = NoEvent /\ Dispatched') =>
          /\ MacroNow' = MacroAfter(SelectSeq(trace', IsAction), 1, MacroNow)
          /\ \A k \in DOMAIN curMacro' :
                 curMacro'[k] \notin {ToggleMacro, PlayMacro}
          /\ (CurViewType.Readonly /\ recordingMacro /\ recordingMacro') =>
                 \A k \in DOMAIN curMacro' :
                     k > Len(curMacro) => NotGated(curMacro'[k])
          /\ (~recordingMacro /\ \A i \in DOMAIN trace' : trace'[i].name # ToggleMacro)
                 => curMacro' = curMacro]_vars

\* C13 witness: a recording being on, a binding of PlayMacro and an action
\* was dispatched over the one cursor of the buffer, both were invoked, and
\* the macro holds two actions in the order they were invoked in, the
\* action of this dispatch the last, PlayMacro not among them.
C13_Witness ==
    /\ Dispatched /\ recordingMacro /\ Len(before) = 1
    /\ lastEvent.actions = <<PlayMacro, CursorLeft>>
    /\ Len(SelectSeq(trace, IsAction)) = 2
    /\ Len(curMacro) = 2 /\ curMacro[2] = CursorLeft

\* C33: the actions run for an event handed to view v are invoked with v
\* as their view argument and gated by the Readonly flag of v, also when v
\* is not the current view of the tab.
C33_ActionsGetHandlingView ==
    Dispatched =>
        \A i \in DOMAIN trace :
            IsAction(trace[i]) =>
                /\ trace[i].view = "v"
                /\ vType.Readonly => NotGated(trace[i].name)

\* The part of C33 the code satisfies: it holds when v is the current view.
C33_CurrentViewGetsItsActions ==
    (Dispatched /\ curView = "v") =>
        \A i \in DOMAIN trace :
            IsAction(trace[i]) =>
                /\ trace[i].view = "v"
                /\ vType.Readonly => NotGated(trace[i].name)

\* The event of a step is a typed rune that matches no binding and that the
\* completer leaves alone, or a paste.
RuneTyped(e) == e.kind = "Key" /\ e.rune /\ ~e.bound /\ ~e.completer
Pasted(e) == e.kind = "Paste"

\* C36: in a help or log view a typed rune that matches no binding and a
\* paste event insert or replace nothing, append nothing to the macro, call
\* no onRune hook, and leave the cursors unchanged.
C36_ReadonlyViewIgnoresTyping ==
    [][(/\ lastEvent = NoEvent
        /\ vType \in {vtHelp, vtLog}
        /\ RuneTyped(lastEvent') \/ Pasted(lastEvent'))
       => /\ cursors' = cursors
          /\ vCursor' = vCursor
          /\ curCursor' = curCursor
          /\ curMacro' = curMacro
          /\ recordingMacro' = recordingMacro
          /\ \A i \in DOMAIN trace' : trace'[i].op = "Relocate"]_vars

\* C36 witness: a rune was typed into a log view with two cursors while a
\* macro was being recorded, with a plugin whose onRune hook would remove
\* cursors; HandleEvent has made its relocation passes and nothing else.
C36_Witness ==
    /\ vType = vtLog /\ RuneTyped(lastEvent) /\ lastEvent.hook
    /\ recordingMacro /\ curMacro = <<>>
    /\ Len(cursors) = 2 /\ before = cursors
    /\ Len(trace) = 2

\* The cursors the insertions of a call were made at, in order.
InsertedAt(tr) ==
    LET ins == SelectSeq(tr, LAMBDA t : t.op \in {"Insert", "paste"})
    IN  [i \in DOMAIN ins |-> ins[i].cursor]

\* C37: a typed rune that matches no binding, in an editable view with N
\* cursors, causes exactly one insertion per cursor, at that cursor; a
\* cursor entry that SetCursor rejects receives no insertion and causes no
\* second insertion at the previously active cursor; the same holds for
\* the paste loop.
C37_OneInsertionPerCursor ==
    [][(/\ lastEvent = NoEvent
        /\ ~vType.Readonly
        /\ RuneTyped(lastEvent') \/ (Pasted(lastEvent') /\ lastEvent'.pre))
       => /\ \A i, j \in DOMAIN InsertedAt(trace') :
                 i # j => InsertedAt(trace')[i] # InsertedAt(trace')[j]
          /\ \A i \in DOMAIN trace' :
                 (trace'[i].op = "SetCursor" /\ trace'[i].cursor = 0)
                     => (i = Len(trace') \/ trace'[i + 1].op \notin {"Insert", "paste"})
          /\ \A k \in DOMAIN cursors :
                 \/ \E i \in DOMAIN InsertedAt(trace') :
                        InsertedAt(trace')[i] = cursors[k].id
                 \/ \E i \in DOMAIN trace' :
                        trace'[i].op = "SetCursor" /\ trace'[i].cursor = 0]_vars

\* The part of C37 the code satisfies: when no cursor is removed during the
\* loop, the insertions are made at the cursors of the buffer, one each, in
\* order.
C37_OneInsertionWhileCursorsStay ==
    [][(/\ lastEvent = NoEvent
        /\ ~vType.Readonly
        /\ ~lastEvent'.hook
        /\ RuneTyped(lastEvent') \/ (Pasted(lastEvent') /\ lastEvent'.pre))
       => InsertedAt(trace') = [k \in DOMAIN cursors |-> cursors[k].id]]_vars

\* The items one dispatch of a binding records: the actions of the binding
\* that are invoked, but for PlayMacro.
Recorded(actions) ==
    SelectSeq(actions, LAMBDA a : a # PlayMacro /\ (CurViewType.Readonly => NotGated(a)))

\* C38: while a macro is being recorded, one dispatch of a binding, or one
\* typed rune, adds each recorded item to curMacro exactly once, whatever
\* the number of cursors.
C38_RecordedOncePerDispatch ==
    [][(lastEvent = NoEvent /\ recordingMacro /\ recordingMacro')
       => /\ (Dispatched' /\ \A k \in DOMAIN lastEvent'.actions :
                                lastEvent'.actions[k] # ToggleMacro)
                 => curMacro' = curMacro \o Recorded(lastEvent'.actions)
          /\ (RuneTyped(lastEvent') /\ ~vType.Readonly)
                 => curMacro' = curMacro \o <<TypedRune>>]_vars

\* The part of C38 the code satisfies: with one cursor every item is
\* recorded once.
C38_RecordedOnceForOneCursor ==
    [][(lastEvent = NoEvent /\ recordingMacro /\ recordingMacro' /\ Len(cursors) = 1)
       => /\ (Dispatched' /\ \A k \in DOMAIN lastEvent'.actions :
                                lastEvent'.actions[k] # ToggleMacro)
                 => curMacro' = curMacro \o Recorded(lastEvent'.actions)
          /\ (RuneTyped(lastEvent') /\ ~vType.Readonly)
                 => curMacro' = curMacro \o <<TypedRune>>]_vars

\* HandleEvent has made its relocation passes: v.Relocate() twice.
Relocated == Len(SelectSeq(trace, LAMBDA t : t.op = "Relocate")) = 2

\* An action invocation of the call has returned true.
SomeReturnedTrue == \E i \in DOMAIN trace : IsAction(trace[i]) /\ trace[i].ret

\* C11: for a key binding dispatched over the cursors of the buffer,
\* HandleEvent makes the relocation passes if and only if at least one
\* action invocation, for any of the cursors, has returned true.
C11_RelocatesIffAnyReturnedTrue ==
    (Dispatched /\ lastEvent.kind = "Key") => (Relocated <=> SomeReturnedTrue)

\* The part of C11 the code satisfies: it relocates exactly if an action
\* invoked for the last cursor the dispatch got to has returned true.
C11_RelocatesIffLastReturnedTrue ==
    (Dispatched /\ lastEvent.kind = "Key" /\ Called # <<>>) =>
        (Relocated <=>
            \E i \in DOMAIN trace :
                /\ IsAction(trace[i]) /\ trace[i].ret
                /\ trace[i].cursor = Called[Len(Called)][2])

(***************************************************************************)
(* Claims about the click classifier.                                      *)
(***************************************************************************)

\* C6: the first click is Single; a click at the location of a Single click
\* 100 ms after it is Double; the next click at that location is Triple
\* after 100 ms more and Single after 500 ms; a click at a location other
\* than that of the click before is Single.
C6_ClickClasses ==
    /\ Len(clickLog) >= 1 => clickLog[1].class = "Single"
    /\ \A i \in 2 .. Len(clickLog) :
          clickLog[i].loc # clickLog[i - 1].loc => clickLog[i].class = "Single"
    /\ \A i \in 1 .. Len(clickLog) - 1 :
          ( /\ clickLog[i].class = "Single"
            /\ clickLog[i + 1].loc = clickLog[i].loc
            /\ clickLog[i + 1].gap = 100 )
          => /\ clickLog[i + 1].class = "Double"
             /\ \A j \in {i + 2} \cap DOMAIN clickLog :
                   clickLog[j].loc = clickLog[i].loc =>
                      /\ clickLog[j].gap = 100 => clickLog[j].class = "Triple"
                      /\ clickLog[j].gap = 500 => clickLog[j].class = "Single"

\* C6 witness: three clicks at one location, 100 ms apart, classified
\* Single, Double, Triple.
C6_Witness ==
    /\ Len(clickLog) >= 3
    /\ clickLog[2].gap = 100 /\ clickLog[3].gap = 100
    /\ clickLog[1].loc = clickLog[2].loc /\ clickLog[2].loc = clickLog[3].loc
    /\ <<clickLog[1].class, clickLog[2].class, clickLog[3].class>>
          = <<"Single", "Double", "Triple">>

=============================================================================
